---- MODULE Spec2Model ----
(***************************************************************************)
(* nestedutils: path-based access into nested dicts, lists and tuples.     *)
(* The model covers normalize_path, the token classifier, the two index    *)
(* resolvers, the container factory and the four walkers get_at,           *)
(* exists_at, set_at and delete_at of src/nestedutils (Spec), the final    *)
(* list branch of set_at run by two threads (SpecConc), and count_leaves   *)
(* and get_all_paths of introspection.py (SpecIntro).                      *)
(*                                                                         *)
(* Python values are modelled as trees.  A string is the sequence of its   *)
(* characters, so that splitting and integer parsing are computed.         *)
(***************************************************************************)
EXTENDS Integers, Sequences, FiniteSets, TLC

(***************************************************************************)
(* Bounds of the explored instance.                                        *)
(***************************************************************************)
MaxPathLen == 2
MaxOps == 2

(***************************************************************************)
(* constants.py                                                            *)
(***************************************************************************)
MAX_DEPTH == 100
MAX_LIST_SIZE == 10000

(***************************************************************************)
(* enums.py: the members PathErrorCode actually has.                       *)
(***************************************************************************)
PathErrorCode ==
    {"INVALID_INDEX", "MISSING_KEY", "EMPTY_PATH", "IMMUTABLE_CONTAINER", "INVALID_PATH"}

(***************************************************************************)
(* Python values.  kind is one of dict, list, tuple, leaf; m is the        *)
(* mapping of a dict, s the elements of a list or tuple, v names the value *)
(* of a leaf (None, False, 0, a string, a set, ...).                       *)
(***************************************************************************)
EmptyMap == [k \in {} |-> 0]
Leaf(x) == [kind |-> "leaf", m |-> EmptyMap, s |-> <<>>, v |-> x]
Dict(f) == [kind |-> "dict", m |-> f, s |-> <<>>, v |-> ""]
List(q) == [kind |-> "list", m |-> EmptyMap, s |-> q, v |-> ""]
Tuple(q) == [kind |-> "tuple", m |-> EmptyMap, s |-> q, v |-> ""]
None == Leaf("None")

(***************************************************************************)
(* Path tokens and the elements of a list path.  k is the Python type of   *)
(* the element: int, bool, str, or another type (float, NoneType) whose    *)
(* str() rendering is carried in s.  A bool carries 0 or 1 in n.           *)
(***************************************************************************)
IntTok(i) == [k |-> "int", n |-> i, s |-> <<>>]
BoolTok(b) == [k |-> "bool", n |-> IF b THEN 1 ELSE 0, s |-> <<>>]
StrTok(cs) == [k |-> "str", n |-> 0, s |-> cs]
OtherTok(cs) == [k |-> "other", n |-> 0, s |-> cs]

\* isinstance(key, int): bool is a subclass of int
IsInstanceInt(key) == key.k \in {"int", "bool"}

(***************************************************************************)
(* int(str): surrounding whitespace is stripped, one optional sign, then   *)
(* decimal digits which single underscores may separate.                   *)
(***************************************************************************)
DigitChars == {"0", "1", "2", "3", "4", "5", "6", "7", "8", "9"}

DigitVal(c) ==
    CASE c = "0" -> 0 [] c = "1" -> 1 [] c = "2" -> 2 [] c = "3" -> 3 [] c = "4" -> 4
      [] c = "5" -> 5 [] c = "6" -> 6 [] c = "7" -> 7 [] c = "8" -> 8 [] c = "9" -> 9
      [] OTHER -> 0

RECURSIVE LStrip(_)
LStrip(cs) == IF cs # <<>> /\ Head(cs) = " " THEN LStrip(Tail(cs)) ELSE cs

RECURSIVE RStrip(_)
RStrip(cs) ==
    IF cs # <<>> /\ cs[Len(cs)] = " " THEN RStrip(SubSeq(cs, 1, Len(cs) - 1)) ELSE cs

StripSign(cs) == IF cs # <<>> /\ Head(cs) \in {"-", "+"} THEN Tail(cs) ELSE cs

DigitsOk(ds) ==
    /\ ds # <<>>
    /\ \A i \in 1..Len(ds) : ds[i] \in DigitChars \cup {"_"}
    /\ ds[1] # "_"
    /\ ds[Len(ds)] # "_"
    /\ \A i \in 1..(Len(ds) - 1) : ~(ds[i] = "_" /\ ds[i + 1] = "_")

RECURSIVE DigitsVal(_, _)
DigitsVal(ds, acc) ==
    IF ds = <<>> THEN acc
    ELSE IF Head(ds) = "_" THEN DigitsVal(Tail(ds), acc)
    ELSE DigitsVal(Tail(ds), 10 * acc + DigitVal(Head(ds)))

PyIntOk(cs) == DigitsOk(StripSign(RStrip(LStrip(cs))))

SignedVal(t) ==
    IF t # <<>> /\ Head(t) = "-" THEN 0 - DigitsVal(StripSign(t), 0)
    ELSE DigitsVal(StripSign(t), 0)

PyIntVal(cs) == SignedVal(RStrip(LStrip(cs)))

(***************************************************************************)
(* Outcomes.  raise PathError(msg, PathErrorCode.X) evaluates the          *)
(* attribute X first: a name enums.py does not define is an AttributeError *)
(* and no PathError is constructed.                                        *)
(***************************************************************************)
Raise(code) ==
    IF code \in PathErrorCode
    THEN [exc |-> "PathError", code |-> code]
    ELSE [exc |-> "AttributeError", code |-> code]

NoExc == [exc |-> "none", code |-> ""]

(***************************************************************************)
(* helpers.py: normalize_path.  A raw path is a list of elements, a        *)
(* string, or a value of another type.                                     *)
(***************************************************************************)
ListPath(es) == [form |-> "list", elems |-> es, chars |-> <<>>]
StrPath(cs) == [form |-> "str", elems |-> <<>>, chars |-> cs]
OtherPath == [form |-> "other", elems |-> <<>>, chars |-> <<>>]

\* str.split("."): the pieces between the dots, always at least one piece.
\* The string is split by halves, so that a path of MAX_DEPTH tokens is split
\* in a few levels of recursion.
SplitJoin(l, r) == SubSeq(l, 1, Len(l) - 1) \o <<l[Len(l)] \o r[1]>> \o Tail(r)

RECURSIVE SplitPieces(_)
SplitPieces(cs) ==
    IF cs = <<>> THEN << <<>> >>
    ELSE IF Len(cs) = 1 THEN (IF cs[1] = "." THEN << <<>>, <<>> >> ELSE <<cs>>)
    ELSE SplitJoin(SplitPieces(SubSeq(cs, 1, Len(cs) \div 2)),
                   SplitPieces(SubSeq(cs, Len(cs) \div 2 + 1, Len(cs))))

StrToks(ps) == [i \in 1..Len(ps) |-> StrTok(ps[i])]

SplitDots(cs, piece) == StrToks(SplitJoin(<<piece>>, SplitPieces(cs)))

\* the loop over a list path: ints are kept, other non-str elements stringified
ListKey(e) == IF IsInstanceInt(e) THEN e ELSE StrTok(e.s)

ListHasEmpty(es) == \E i \in 1..Len(es) : ~IsInstanceInt(es[i]) /\ es[i].s = <<>>

\* the checks on the collected keys: not empty, depth, no empty string
validate_keys(keys) ==
    IF keys = <<>>
    THEN [out |-> Raise("EMPTY_PATH"), keys |-> <<>>]
    ELSE IF Len(keys) > MAX_DEPTH
    THEN [out |-> Raise("INVALID_PATH"), keys |-> <<>>]
    ELSE IF \E i \in 1..Len(keys) : keys[i].k = "str" /\ keys[i].s = <<>>
    THEN [out |-> Raise("EMPTY_PATH"), keys |-> <<>>]
    ELSE [out |-> NoExc, keys |-> keys]

normalize_path(path) ==
    IF path.form = "list"
    THEN IF ListHasEmpty(path.elems)
         THEN [out |-> Raise("EMPTY_PATH"), keys |-> <<>>]
         ELSE validate_keys([i \in 1..Len(path.elems) |-> ListKey(path.elems[i])])
    ELSE IF path.form = "str"
    THEN validate_keys(SplitDots(path.chars, <<>>))
    ELSE [out |-> Raise("INVALID_PATH"), keys |-> <<>>]

(***************************************************************************)
(* helpers.py: token classifier and index resolvers.                       *)
(***************************************************************************)
is_int_key(key) ==
    IF IsInstanceInt(key) THEN TRUE
    ELSE IF key.k # "str" THEN FALSE
    ELSE IF key.s = <<>> THEN FALSE
    ELSE PyIntOk(key.s)

parse_int_key(key) == IF IsInstanceInt(key) THEN key.n ELSE PyIntVal(key.s)

\* DictKey that turns a numeral into the integer it denotes
DictKey_coerced(key) == IF is_int_key(key) THEN IntTok(parse_int_key(key)) ELSE key

\* the key a token denotes in a dict: True == 1 and False == 0 hash alike
DictKey(key) == IF key.k = "bool" THEN IntTok(key.n) ELSE key

\* 0 <= idx < len(container), or -1 for Python's None ("not found")
in_bounds(length, idx) == IF 0 <= idx /\ idx < length THEN idx ELSE -1

\* read_index without the wrap of a negative index
read_index_no_wrap(length, idx) == in_bounds(length, idx)

\* read_index that wraps a negative index around the sequence more than once
read_index_modulo(length, idx) ==
    IF length = 0 THEN -1
    ELSE in_bounds(length, IF idx < 0 THEN idx % length ELSE idx)

read_index(length, idx) == in_bounds(length, IF idx < 0 THEN length + idx ELSE idx)

resolve_read_index(container, key) == read_index(Len(container.s), parse_int_key(key))

\* write_index that clamps a negative index below the first element to 0
write_index_clamped(length, idx) ==
    IF idx > MAX_LIST_SIZE
    THEN [out |-> Raise("INVALID_INDEX"), idx |-> 0]
    ELSE IF idx < 0
    THEN IF length + idx < 0
         THEN [out |-> NoExc, idx |-> 0]
         ELSE [out |-> NoExc, idx |-> length + idx]
    ELSE IF idx > length
    THEN [out |-> Raise("INVALID_INDEX"), idx |-> 0]
    ELSE [out |-> NoExc, idx |-> idx]

\* the resolved offset, or the PathError raised
write_index(length, idx) ==
    IF idx > MAX_LIST_SIZE
    THEN [out |-> Raise("INVALID_INDEX"), idx |-> 0]
    ELSE IF idx < 0
    THEN IF length + idx < 0 \/ length + idx >= length
         THEN [out |-> Raise("INVALID_INDEX"), idx |-> 0]
         ELSE [out |-> NoExc, idx |-> length + idx]
    ELSE IF idx > length
    THEN [out |-> Raise("INVALID_INDEX"), idx |-> 0]
    ELSE [out |-> NoExc, idx |-> idx]

resolve_write_index(container, key) == write_index(Len(container.s), parse_int_key(key))

\* create_intermediate_container that takes only an integer for an index
create_intermediate_container_int_only(next_key) ==
    IF IsInstanceInt(next_key) THEN List(<<>>) ELSE Dict(EmptyMap)

create_intermediate_container(next_key) ==
    IF is_int_key(next_key) THEN List(<<>>) ELSE Dict(EmptyMap)

(***************************************************************************)
(* access.py: get_at.  get_step is the body of the loop for one key: the   *)
(* next node, or the error code of the failing branch.                     *)
(***************************************************************************)
NotFound(code) == [found |-> FALSE, code |-> code, val |-> None]
Found(val) == [found |-> TRUE, code |-> "", val |-> val]

get_index_step(current, idx) ==
    IF idx = -1 THEN NotFound("INVALID_INDEX") ELSE Found(current.s[idx + 1])

get_step(current, key) ==
    IF current.kind = "dict"
    THEN IF DictKey(key) \notin DOMAIN current.m
         THEN NotFound("MISSING_KEY")
         ELSE Found(current.m[DictKey(key)])
    ELSE IF current.kind \in {"list", "tuple"}
    THEN IF ~is_int_key(key)
         THEN NotFound("INVALID_INDEX")
         ELSE get_index_step(current, resolve_read_index(current, key))
    ELSE NotFound("NON_NAVIGABLE_TYPE")

\* the loop: the node the keys lead to, or the code of the first failing step.
\* The keys are walked by halves, the second half from where the first half
\* led to, so that a walk of MAX_DEPTH keys takes few levels of recursion.
RECURSIVE GetWalk(_, _)
RECURSIVE GetNext(_, _)
GetWalk(current, keys) ==
    IF keys = <<>> THEN Found(current)
    ELSE IF Len(keys) = 1 THEN get_step(current, keys[1])
    ELSE GetNext(GetWalk(current, SubSeq(keys, 1, Len(keys) \div 2)),
                 SubSeq(keys, Len(keys) \div 2 + 1, Len(keys)))
GetNext(st, rest) == IF st.found THEN GetWalk(st.val, rest) ELSE st

\* get_outcome that takes a stored None for a missing value
get_outcome_none_is_missing(w, hasDefault, default) ==
    IF w.found /\ ~(hasDefault /\ w.val = None) THEN [out |-> NoExc, ret |-> w.val]
    ELSE IF hasDefault THEN [out |-> NoExc, ret |-> default]
    ELSE [out |-> Raise(w.code), ret |-> None]

\* every failing branch returns the default when one was given, else raises
get_outcome(w, hasDefault, default) ==
    IF w.found THEN [out |-> NoExc, ret |-> w.val]
    ELSE IF hasDefault THEN [out |-> NoExc, ret |-> default]
    ELSE [out |-> Raise(w.code), ret |-> None]

get_keys(data, np, hasDefault, default) ==
    IF np.out.exc # "none" THEN [out |-> np.out, ret |-> None]
    ELSE get_outcome(GetWalk(data, np.keys), hasDefault, default)

get_at(data, path, hasDefault, default) ==
    get_keys(data, normalize_path(path), hasDefault, default)

(***************************************************************************)
(* access.py: exists_at.  The except clause builds the tuple of codes      *)
(* before it tests membership, so it evaluates every attribute it names.   *)
(***************************************************************************)
ExistsNotFoundCodes == {"MISSING_KEY", "INVALID_INDEX", "NON_NAVIGABLE_TYPE"}

\* g is the outcome of get_at(data, path) without a default
exists_outcome(g) ==
    IF g.out.exc = "none" THEN [out |-> NoExc, ret |-> Leaf("True")]
    ELSE IF g.out.exc # "PathError" THEN [out |-> g.out, ret |-> None]
    ELSE IF ExistsNotFoundCodes \ PathErrorCode # {}
    THEN [out |-> Raise(CHOOSE c \in ExistsNotFoundCodes \ PathErrorCode : TRUE), ret |-> None]
    ELSE IF g.out.code \in ExistsNotFoundCodes
    THEN [out |-> NoExc, ret |-> Leaf("False")]
    ELSE [out |-> g.out, ret |-> None]

exists_at(data, path) == exists_outcome(get_at(data, path, FALSE, None))

(***************************************************************************)
(* In-place mutation of a container, as a new tree.                        *)
(***************************************************************************)
DictPut(current, k, val) ==
    Dict([x \in DOMAIN current.m \cup {k} |-> IF x = k THEN val ELSE current.m[x]])

DictPop(current, k) == Dict([x \in DOMAIN current.m \ {k} |-> current.m[x]])

SeqPut(current, idx, val) ==
    [current EXCEPT !.s = [i \in 1..Len(current.s) |-> IF i = idx + 1 THEN val ELSE current.s[i]]]

SeqAppend(current, val) == [current EXCEPT !.s = Append(current.s, val)]

SeqPop(current, idx) ==
    [current EXCEPT !.s = SubSeq(current.s, 1, idx) \o SubSeq(current.s, idx + 2, Len(current.s))]

\* a slot of a container: a dict key or a sequence offset
KeySlot(k) == [isKey |-> TRUE, key |-> k, idx |-> 0]
IdxSlot(i) == [isKey |-> FALSE, key |-> IntTok(0), idx |-> i]
NoSlot == IdxSlot(0)

Child(current, slot) ==
    IF slot.isKey THEN current.m[slot.key] ELSE current.s[slot.idx + 1]

WithChild(current, slot, val) ==
    IF slot.isKey THEN DictPut(current, slot.key, val) ELSE SeqPut(current, slot.idx, val)

(***************************************************************************)
(* access.py: set_at.  set_step is the body of the loop over keys[:-1]:    *)
(* the container after the step, and the slot the walk descends into.      *)
(* fresh is create_intermediate_container(next_key).                       *)
(***************************************************************************)
StepRaise(code, current) == [out |-> Raise(code), cur |-> current, slot |-> NoSlot]

\* set_dict_step that replaces a None value whatever create says
set_dict_step_none_replaced(current, k, fresh, create) ==
    IF k \notin DOMAIN current.m
    THEN IF ~create THEN StepRaise("MISSING_KEY", current)
         ELSE [out |-> NoExc, cur |-> DictPut(current, k, fresh), slot |-> KeySlot(k)]
    ELSE IF current.m[k] = None
    THEN [out |-> NoExc, cur |-> DictPut(current, k, fresh), slot |-> KeySlot(k)]
    ELSE [out |-> NoExc, cur |-> current, slot |-> KeySlot(k)]

set_dict_step(current, k, fresh, create) ==
    IF k \notin DOMAIN current.m
    THEN IF ~create THEN StepRaise("MISSING_KEY", current)
         ELSE [out |-> NoExc, cur |-> DictPut(current, k, fresh), slot |-> KeySlot(k)]
    ELSE IF current.m[k] = None
    THEN IF ~create THEN StepRaise("MISSING_KEY", current)
         ELSE [out |-> NoExc, cur |-> DictPut(current, k, fresh), slot |-> KeySlot(k)]
    ELSE [out |-> NoExc, cur |-> current, slot |-> KeySlot(k)]

\* set_list_step that replaces any leaf it finds in the slot, not only None
set_list_step_leaf_replaced(current, w, fresh, create) ==
    IF w.out.exc # "none" THEN [out |-> w.out, cur |-> current, slot |-> NoSlot]
    ELSE IF w.idx = Len(current.s)
    THEN IF ~create THEN StepRaise("INVALID_INDEX", current)
         ELSE [out |-> NoExc, cur |-> SeqAppend(current, fresh), slot |-> IdxSlot(w.idx)]
    ELSE IF current.s[w.idx + 1].kind = "leaf"
    THEN IF ~create THEN StepRaise("MISSING_KEY", current)
         ELSE [out |-> NoExc, cur |-> SeqPut(current, w.idx, fresh), slot |-> IdxSlot(w.idx)]
    ELSE [out |-> NoExc, cur |-> current, slot |-> IdxSlot(w.idx)]

\* w is resolve_write_index(current, key)
set_list_step(current, w, fresh, create) ==
    IF w.out.exc # "none" THEN [out |-> w.out, cur |-> current, slot |-> NoSlot]
    ELSE IF w.idx = Len(current.s)
    THEN IF ~create THEN StepRaise("INVALID_INDEX", current)
         ELSE [out |-> NoExc, cur |-> SeqAppend(current, fresh), slot |-> IdxSlot(w.idx)]
    ELSE IF current.s[w.idx + 1] = None
    THEN IF ~create THEN StepRaise("MISSING_KEY", current)
         ELSE [out |-> NoExc, cur |-> SeqPut(current, w.idx, fresh), slot |-> IdxSlot(w.idx)]
    ELSE [out |-> NoExc, cur |-> current, slot |-> IdxSlot(w.idx)]

set_step(current, key, next_key, create) ==
    IF current.kind = "dict"
    THEN set_dict_step(current, DictKey(key), create_intermediate_container(next_key), create)
    ELSE IF current.kind = "list"
    THEN IF ~is_int_key(key) THEN StepRaise("INVALID_INDEX", current)
         ELSE set_list_step(current, resolve_write_index(current, key),
                            create_intermediate_container(next_key), create)
    ELSE IF current.kind = "tuple"
    THEN StepRaise("IMMUTABLE_CONTAINER", current)
    ELSE StepRaise("NON_NAVIGABLE_TYPE", current)

\* the final key on a list; w is resolve_write_index(current, final_key)
\* set_final_list that inserts the value before the slot instead of assigning to it
set_final_list_insert(current, w, value, create) ==
    IF w.out.exc # "none" THEN [out |-> w.out, cur |-> current]
    ELSE IF w.idx = Len(current.s)
    THEN IF ~create THEN [out |-> Raise("INVALID_INDEX"), cur |-> current]
         ELSE [out |-> NoExc, cur |-> SeqAppend(current, value)]
    ELSE [out |-> NoExc,
          cur |-> [current EXCEPT !.s = SubSeq(current.s, 1, w.idx) \o <<value>>
                                           \o SubSeq(current.s, w.idx + 1, Len(current.s))]]

\* set_final_list that appends whatever create says
set_final_list_append_always(current, w, value, create) ==
    IF w.out.exc # "none" THEN [out |-> w.out, cur |-> current]
    ELSE IF w.idx = Len(current.s) THEN [out |-> NoExc, cur |-> SeqAppend(current, value)]
    ELSE [out |-> NoExc, cur |-> SeqPut(current, w.idx, value)]

\* the final key on a list up to the call of resolve_write_index
set_final_resolve(current, final_key) ==
    IF ~is_int_key(final_key) THEN [out |-> Raise("INVALID_INDEX"), idx |-> 0]
    ELSE resolve_write_index(current, final_key)

\* set_final_list_branch that appends at every index that is not the last slot
set_final_list_branch_append(current, idx, create) ==
    IF idx >= Len(current.s) - 1
    THEN IF ~create THEN "raise" ELSE "append"
    ELSE "assign"

\* the branch the test idx == len(current) takes
set_final_list_branch(current, idx, create) ==
    IF idx = Len(current.s)
    THEN IF ~create THEN "raise" ELSE "append"
    ELSE "assign"

set_final_list(current, w, value, create) ==
    IF w.out.exc # "none" THEN [out |-> w.out, cur |-> current]
    ELSE IF w.idx = Len(current.s)
    THEN IF ~create THEN [out |-> Raise("INVALID_INDEX"), cur |-> current]
         ELSE [out |-> NoExc, cur |-> SeqAppend(current, value)]
    ELSE [out |-> NoExc, cur |-> SeqPut(current, w.idx, value)]

\* set_final with dict.setdefault in place of the assignment
set_final_setdefault(current, final_key, value, create) ==
    IF current.kind = "dict"
    THEN IF DictKey(final_key) \in DOMAIN current.m
         THEN [out |-> NoExc, cur |-> current]
         ELSE [out |-> NoExc, cur |-> DictPut(current, DictKey(final_key), value)]
    ELSE IF current.kind = "list"
    THEN IF ~is_int_key(final_key) THEN [out |-> Raise("INVALID_INDEX"), cur |-> current]
         ELSE set_final_list(current, resolve_write_index(current, final_key), value, create)
    ELSE IF current.kind = "tuple"
    THEN [out |-> Raise("IMMUTABLE_CONTAINER"), cur |-> current]
    ELSE [out |-> Raise("INVALID_PATH"), cur |-> current]

\* set_final without the tuple branch: a tuple is taken for any other non-container
set_final_no_tuple_branch(current, final_key, value, create) ==
    IF current.kind = "dict"
    THEN [out |-> NoExc, cur |-> DictPut(current, DictKey(final_key), value)]
    ELSE IF current.kind = "list"
    THEN IF ~is_int_key(final_key) THEN [out |-> Raise("INVALID_INDEX"), cur |-> current]
         ELSE set_final_list(current, resolve_write_index(current, final_key), value, create)
    ELSE [out |-> Raise("INVALID_PATH"), cur |-> current]

\* the code after the loop: the final key
set_final(current, final_key, value, create) ==
    IF current.kind = "dict"
    THEN [out |-> NoExc, cur |-> DictPut(current, DictKey(final_key), value)]
    ELSE IF current.kind = "list"
    THEN IF ~is_int_key(final_key) THEN [out |-> Raise("INVALID_INDEX"), cur |-> current]
         ELSE set_final_list(current, resolve_write_index(current, final_key), value, create)
    ELSE IF current.kind = "tuple"
    THEN [out |-> Raise("IMMUTABLE_CONTAINER"), cur |-> current]
    ELSE [out |-> Raise("INVALID_PATH"), cur |-> current]

\* the walk: containers materialized before a failure stay in the tree
RECURSIVE SetWalk(_, _, _, _)
RECURSIVE SetDescend(_, _, _, _, _)
SetRejoin(st, sub) == [out |-> sub.out, cur |-> WithChild(st.cur, st.slot, sub.cur)]
SetWalk(current, keys, value, create) ==
    IF Len(keys) = 1 THEN set_final(current, keys[1], value, create)
    ELSE SetDescend(current, set_step(current, keys[1], keys[2], create), Tail(keys), value, create)
SetDescend(current, st, rest, value, create) ==
    IF st.out.exc # "none" THEN [out |-> st.out, cur |-> current]
    ELSE SetRejoin(st, SetWalk(Child(st.cur, st.slot), rest, value, create))

\* set_keys that gives the root back as it was when the walk fails
set_keys_rollback(data, np, value, create) ==
    IF np.out.exc # "none" THEN [out |-> np.out, cur |-> data]
    ELSE IF SetWalk(data, np.keys, value, create).out.exc # "none"
    THEN [out |-> SetWalk(data, np.keys, value, create).out, cur |-> data]
    ELSE SetWalk(data, np.keys, value, create)

set_keys(data, np, value, create) ==
    IF np.out.exc # "none" THEN [out |-> np.out, cur |-> data]
    ELSE SetWalk(data, np.keys, value, create)

\* the outcome, and the root after the call
set_at(data, path, value, create) == set_keys(data, normalize_path(path), value, create)

\* def set_at(data, path, value, *, create=False): create is the only keyword
\* the signature takes.  A call that passes another keyword (fill_strategy) is
\* rejected with TypeError when the arguments are bound, before the body runs.
SetAtKeywords == {"create"}

set_at_keywords(data, path, value, create, keywords) ==
    IF keywords \subseteq SetAtKeywords
    THEN set_at(data, path, value, create)
    ELSE [out |-> [exc |-> "TypeError", code |-> ""], cur |-> data]

(***************************************************************************)
(* access.py: get_at and exists_at, the root after the call.               *)
(***************************************************************************)
\* get_at that stores the default it returns, as dict.setdefault would
get_at_root_setdefault(data, path, hasDefault, default) ==
    IF hasDefault /\ data.kind = "dict" /\ normalize_path(path).out.exc = "none"
                  /\ Len(normalize_path(path).keys) = 1
                  /\ DictKey(normalize_path(path).keys[1]) \notin DOMAIN data.m
    THEN DictPut(data, DictKey(normalize_path(path).keys[1]), default)
    ELSE data

\* the root after the call: get_at assigns to its local `current` only and
\* calls no mutating method of a container
get_at_root(data, path, hasDefault, default) == data

\* the root after the call: exists_at touches data through get_at only
exists_at_root(data, path) == get_at_root(data, path, FALSE, None)

(***************************************************************************)
(* access.py: delete_at.  del_step is the body of the loop over keys[:-1]. *)
(***************************************************************************)
del_index_step(idx) ==
    IF idx = -1 THEN [out |-> Raise("INVALID_INDEX"), slot |-> NoSlot]
    ELSE [out |-> NoExc, slot |-> IdxSlot(idx)]

\* del_step that refuses a tuple as set_at does
del_step_tuple_refused(current, key) ==
    IF current.kind = "dict"
    THEN IF DictKey(key) \notin DOMAIN current.m
         THEN [out |-> Raise("MISSING_KEY"), slot |-> NoSlot]
         ELSE [out |-> NoExc, slot |-> KeySlot(DictKey(key))]
    ELSE IF current.kind = "list"
    THEN IF ~is_int_key(key)
         THEN [out |-> Raise("INVALID_INDEX"), slot |-> NoSlot]
         ELSE del_index_step(resolve_read_index(current, key))
    ELSE IF current.kind = "tuple"
    THEN [out |-> Raise("IMMUTABLE_CONTAINER"), slot |-> NoSlot]
    ELSE [out |-> Raise("INVALID_PATH"), slot |-> NoSlot]

del_step(current, key) ==
    IF current.kind = "dict"
    THEN IF DictKey(key) \notin DOMAIN current.m
         THEN [out |-> Raise("MISSING_KEY"), slot |-> NoSlot]
         ELSE [out |-> NoExc, slot |-> KeySlot(DictKey(key))]
    ELSE IF current.kind \in {"list", "tuple"}
    THEN IF ~is_int_key(key)
         THEN [out |-> Raise("INVALID_INDEX"), slot |-> NoSlot]
         ELSE del_index_step(resolve_read_index(current, key))
    ELSE [out |-> Raise("INVALID_PATH"), slot |-> NoSlot]

DelRaise(code, current) == [out |-> Raise(code), cur |-> current, ret |-> None]

\* the final key on a list once deletion is allowed and the key is an index
del_final_index(current, idx) ==
    IF idx = -1 THEN DelRaise("INVALID_INDEX", current)
    ELSE [out |-> NoExc, cur |-> SeqPop(current, idx), ret |-> current.s[idx + 1]]

\* del_final_list that validates the index before it looks at allow_list_mutation
del_final_list_index_first(current, final_key, allow_list_mutation) ==
    IF ~is_int_key(final_key) THEN DelRaise("INVALID_INDEX", current)
    ELSE IF resolve_read_index(current, final_key) = -1 THEN DelRaise("INVALID_INDEX", current)
    ELSE IF ~allow_list_mutation THEN DelRaise("INVALID_PATH", current)
    ELSE del_final_index(current, resolve_read_index(current, final_key))

\* del_final_list that pops the element before it looks at allow_list_mutation
del_final_list_pop_first(current, final_key, allow_list_mutation) ==
    IF ~is_int_key(final_key) THEN DelRaise("INVALID_INDEX", current)
    ELSE IF resolve_read_index(current, final_key) = -1 THEN DelRaise("INVALID_INDEX", current)
    ELSE IF ~allow_list_mutation
    THEN [out |-> Raise("INVALID_PATH"),
          cur |-> SeqPop(current, resolve_read_index(current, final_key)), ret |-> None]
    ELSE del_final_index(current, resolve_read_index(current, final_key))

del_final_list(current, final_key, allow_list_mutation) ==
    IF ~allow_list_mutation THEN DelRaise("INVALID_PATH", current)
    ELSE IF ~is_int_key(final_key) THEN DelRaise("INVALID_INDEX", current)
    ELSE del_final_index(current, resolve_read_index(current, final_key))

\* del_final_dict with pop(key, None): an absent key is not an error
del_final_dict_pop_default(current, k) ==
    IF k \notin DOMAIN current.m THEN [out |-> NoExc, cur |-> current, ret |-> None]
    ELSE [out |-> NoExc, cur |-> DictPop(current, k), ret |-> current.m[k]]

del_final_dict(current, k) ==
    IF k \notin DOMAIN current.m THEN DelRaise("MISSING_KEY", current)
    ELSE [out |-> NoExc, cur |-> DictPop(current, k), ret |-> current.m[k]]

\* the code after the loop: the final key
\* del_final that reports a leaf with the code set_at uses for a leaf it walks into
del_final_leaf_non_navigable(current, final_key, allow_list_mutation) ==
    IF current.kind = "dict" THEN del_final_dict(current, DictKey(final_key))
    ELSE IF current.kind = "list" THEN del_final_list(current, final_key, allow_list_mutation)
    ELSE IF current.kind = "tuple" THEN DelRaise("IMMUTABLE_CONTAINER", current)
    ELSE DelRaise("NON_NAVIGABLE_TYPE", current)

del_final(current, final_key, allow_list_mutation) ==
    IF current.kind = "dict" THEN del_final_dict(current, DictKey(final_key))
    ELSE IF current.kind = "list" THEN del_final_list(current, final_key, allow_list_mutation)
    ELSE IF current.kind = "tuple" THEN DelRaise("IMMUTABLE_CONTAINER", current)
    ELSE DelRaise("INVALID_PATH", current)

\* a dict or list nested in a tuple is still mutated in place
RECURSIVE DelWalk(_, _, _)
RECURSIVE DelDescend(_, _, _, _)
DelRejoin(current, slot, sub) ==
    [out |-> sub.out, cur |-> WithChild(current, slot, sub.cur), ret |-> sub.ret]
DelWalk(current, keys, allow_list_mutation) ==
    IF Len(keys) = 1 THEN del_final(current, keys[1], allow_list_mutation)
    ELSE DelDescend(current, del_step(current, keys[1]), Tail(keys), allow_list_mutation)
DelDescend(current, st, rest, allow_list_mutation) ==
    IF st.out.exc # "none" THEN [out |-> st.out, cur |-> current, ret |-> None]
    ELSE DelRejoin(current, st.slot, DelWalk(Child(current, st.slot), rest, allow_list_mutation))

del_keys(data, np, allow_list_mutation) ==
    IF np.out.exc # "none" THEN [out |-> np.out, cur |-> data, ret |-> None]
    ELSE DelWalk(data, np.keys, allow_list_mutation)

delete_at(data, path, allow_list_mutation) ==
    del_keys(data, normalize_path(path), allow_list_mutation)

(***************************************************************************)
(* The program state: the caller's root, mutated in place by set_at and    *)
(* delete_at, the number of calls made, and the record of the call in      *)
(* progress (its arguments, the root it was applied to and its outcome).   *)
(***************************************************************************)
(***************************************************************************)
(* introspection.py: count_leaves and get_all_paths.  The items of a dict  *)
(* are taken in one fixed order; the order Python iterates in is not part  *)
(* of the model.                                                           *)
(***************************************************************************)
RECURSIVE KeyOrder(_)
KeyOrder(ks) ==
    IF ks = {} THEN <<>>
    ELSE <<CHOOSE k \in ks : TRUE>> \o KeyOrder(ks \ {CHOOSE k \in ks : TRUE})

\* current.items() of a dict, enumerate(current) of a list or tuple
Items(current) ==
    IF current.kind = "dict"
    THEN [i \in 1..Cardinality(DOMAIN current.m) |->
             [key |-> KeyOrder(DOMAIN current.m)[i],
              value |-> current.m[KeyOrder(DOMAIN current.m)[i]]]]
    ELSE [i \in 1..Len(current.s) |-> [key |-> IntTok(i - 1), value |-> current.s[i]]]

IsContainer(current) == current.kind \in {"dict", "list", "tuple"}

\* the values of the items, in the order count_leaves sums over them
ItemValues(data) == [i \in 1..Len(Items(data)) |-> Items(data)[i].value]

\* the calls recurse(value, prefix + [key]) that one call on a container makes
ItemCalls(current, prefix) ==
    [i \in 1..Len(Items(current)) |->
        [current |-> Items(current)[i].value, prefix |-> Append(prefix, Items(current)[i].key)]]

\* One call of count_leaves on data, with the calls still to be made in
\* pending and the leaves counted so far in count: a container hands its
\* values on to further calls, anything else returns 1.
count_leaves_call(data, pending, count) ==
    IF IsContainer(data)
    THEN [pending |-> ItemValues(data) \o pending, count |-> count]
    ELSE [pending |-> pending, count |-> count + 1]

\* recurse_call that returns the prefix of an empty container too
recurse_call_with_empties(c, pending, paths) ==
    IF IsContainer(c.current) /\ Items(c.current) # <<>>
    THEN [pending |-> ItemCalls(c.current, c.prefix) \o pending, paths |-> paths]
    ELSE [pending |-> pending, paths |-> Append(paths, c.prefix)]

\* One call recurse(current, prefix), c = [current, prefix]: an empty
\* container returns [], a container extends paths by what the calls on its
\* items return, anything else returns [prefix].
recurse_call(c, pending, paths) ==
    IF IsContainer(c.current)
    THEN IF Items(c.current) = <<>>
         THEN [pending |-> pending, paths |-> paths]
         ELSE [pending |-> ItemCalls(c.current, c.prefix) \o pending, paths |-> paths]
    ELSE [pending |-> pending, paths |-> Append(paths, c.prefix)]

VARIABLES root, call, pre, result, nops, th, insp

vars == <<root, call, pre, result, nops, th, insp>>

(***************************************************************************)
(* Inputs.                                                                 *)
(***************************************************************************)
A == StrTok(<<"a">>)
B == StrTok(<<"b">>)

\* the pieces string paths are joined from; the empty piece gives "", "a.", ".a", "a..b"
StrPieces == {<<"a">>, <<"0">>, <<"1">>, <<"-", "1">>, <<>>}

\* the elements list paths are built from
ListElems == {A, IntTok(0), IntTok(-1), IntTok(-2), StrTok(<<>>)}

SeqsUpTo(S, n) == UNION {[1..i -> S] : i \in 1..n}

RECURSIVE JoinDots(_)
JoinDots(ps) ==
    IF Len(ps) = 1 THEN ps[1] ELSE ps[1] \o <<".">> \o JoinDots(Tail(ps))

\* paths at the depth limit: MAX_DEPTH and MAX_DEPTH + 1 tokens, and two of
\* MAX_DEPTH + 1 tokens that also hold an empty token ("...." and [a, ..., a, ""])
LongPaths ==
    {StrPath([i \in 1..(2 * n - 1) |-> IF i % 2 = 1 THEN "a" ELSE "."]) : n \in {MAX_DEPTH, MAX_DEPTH + 1}}
        \cup {StrPath([i \in 1..MAX_DEPTH |-> "."]),
              ListPath([i \in 1..(MAX_DEPTH + 1) |-> IF i <= MAX_DEPTH THEN A ELSE StrTok(<<>>)])}

\* paths with a token that int() parses though it is no plain numeral
\* ("+0", " 0", "1_0"), and list paths with a boolean element
OddPaths ==
    { ListPath(<<StrTok(<<"+", "0">>)>>),
      StrPath(<<" ", "0">>),
      ListPath(<<A, StrTok(<<"1", "_", "0">>)>>),
      ListPath(<<BoolTok(TRUE)>>),
      ListPath(<<A, BoolTok(FALSE)>>) }

Paths ==
    {StrPath(JoinDots(ps)) : ps \in SeqsUpTo(StrPieces, MaxPathLen)}
        \cup {ListPath(es) : es \in SeqsUpTo(ListElems, MaxPathLen)}
        \cup {ListPath(<<>>), OtherPath}
        \cup OddPaths

\* the calls that never create a container are also given the paths at the depth limit
DeepPaths == Paths \cup LongPaths

SetValues == {None, Leaf("v")}
Default == Leaf("dflt")

Map1(k1, v1) == [x \in {k1} |-> v1]
Map2(k1, v1, k2, v2) == [x \in {k1, k2} |-> IF x = k1 THEN v1 ELSE v2]

InitRoots ==
    { Dict(EmptyMap),
      List(<<>>),
      Dict(Map2(A, List(<<Leaf("x"), None>>), B, Leaf("0"))),
      Dict(Map2(A, None, B, Leaf("False"))),
      Dict(Map1(A, Tuple(<<Leaf("x"), Dict(Map1(B, Leaf("''")))>>))),
      Tuple(<<Dict(Map1(A, Leaf("x"))), List(<<Leaf("y")>>)>>),
      List(<<Dict(Map2(A, Leaf("x"), B, None)), None>>),
      Leaf("5") }

NoCall ==
    [op |-> "none", path |-> OtherPath, value |-> None, create |-> FALSE,
     allow |-> FALSE, hasDefault |-> FALSE, default |-> None, fill |-> ""]

\* the fill_strategy arguments of the callers in tests/test_set.py
FillStrategies == {"none", "unknown"}

NoResult == [exc |-> "none", code |-> "", ret |-> None]

\* the threads of a caller that shares one list between them
Threads == {1, 2}

\* a thread that has not called set_at yet
IdleThread ==
    [pc |-> "idle", key |-> IntTok(0), value |-> None, create |-> FALSE, idx |-> 0,
     out |-> NoExc, seen |-> None, interleaved |-> FALSE]

\* nothing has been counted or listed yet
NoInspection ==
    [cpc |-> "idle", cpending |-> <<>>, count |-> 0,
     ppc |-> "idle", ppending |-> <<>>, paths |-> <<>>]

Init ==
    /\ root \in InitRoots
    /\ call = NoCall
    /\ pre = root
    /\ result = NoResult
    /\ nops = 0
    /\ th = [t \in Threads |-> IdleThread]
    /\ insp = NoInspection

GetAt ==
    /\ call = NoCall
    /\ nops < MaxOps
    /\ nops' = nops + 1
    /\ \E p \in DeepPaths, hd \in BOOLEAN :
        \E r \in {get_at(root, p, hd, Default)} :
           /\ call' = [NoCall EXCEPT !.op = "get_at", !.path = p, !.hasDefault = hd,
                                     !.default = IF hd THEN Default ELSE None]
           /\ pre' = root
           /\ result' = [exc |-> r.out.exc, code |-> r.out.code, ret |-> r.ret]
           /\ root' = get_at_root(root, p, hd, Default)
    /\ UNCHANGED <<th, insp>>

ExistsAt ==
    /\ call = NoCall
    /\ nops < MaxOps
    /\ nops' = nops + 1
    /\ \E p \in DeepPaths :
        \E r \in {exists_at(root, p)} :
           /\ call' = [NoCall EXCEPT !.op = "exists_at", !.path = p]
           /\ pre' = root
           /\ result' = [exc |-> r.out.exc, code |-> r.out.code, ret |-> r.ret]
           /\ root' = exists_at_root(root, p)
    /\ UNCHANGED <<th, insp>>

SetAt ==
    /\ call = NoCall
    /\ nops < MaxOps
    /\ nops' = nops + 1
    /\ \E p \in Paths, v \in SetValues, c \in BOOLEAN :
        \E r \in {set_at_keywords(root, p, v, c, {"create"})} :
           /\ call' = [NoCall EXCEPT !.op = "set_at", !.path = p, !.value = v, !.create = c]
           /\ pre' = root
           /\ result' = [exc |-> r.out.exc, code |-> r.out.code, ret |-> None]
           /\ root' = r.cur
    /\ UNCHANGED <<th, insp>>

\* set_at(data, path, value, create=True, fill_strategy=f)
SetAtFill ==
    /\ call = NoCall
    /\ nops < MaxOps
    /\ nops' = nops + 1
    /\ \E p \in Paths, f \in FillStrategies :
        \E r \in {set_at_keywords(root, p, Leaf("v"), TRUE, {"create", "fill_strategy"})} :
           /\ call' = [NoCall EXCEPT !.op = "set_at_fill", !.path = p, !.value = Leaf("v"),
                                     !.create = TRUE, !.fill = f]
           /\ pre' = root
           /\ result' = [exc |-> r.out.exc, code |-> r.out.code, ret |-> None]
           /\ root' = r.cur
    /\ UNCHANGED <<th, insp>>

DeleteAt ==
    /\ call = NoCall
    /\ nops < MaxOps
    /\ nops' = nops + 1
    /\ \E p \in DeepPaths, al \in BOOLEAN :
        \E r \in {delete_at(root, p, al)} :
           /\ call' = [NoCall EXCEPT !.op = "delete_at", !.path = p, !.allow = al]
           /\ pre' = root
           /\ result' = [exc |-> r.out.exc, code |-> r.out.code, ret |-> r.ret]
           /\ root' = r.cur
    /\ UNCHANGED <<th, insp>>

\* the call has returned or raised; the caller goes on to its next call
Return ==
    /\ call # NoCall
    /\ call' = NoCall
    /\ pre' = root
    /\ result' = NoResult
    /\ UNCHANGED <<root, nops, th, insp>>

Next == GetAt \/ ExistsAt \/ SetAt \/ SetAtFill \/ DeleteAt \/ Return

Spec == Init /\ [][Next]_vars

(***************************************************************************)
(* access.py: the final list branch of set_at, run by two threads on one   *)
(* list with no lock.  A thread can be preempted between the call of       *)
(* resolve_write_index, the test idx == len(current) and the append or the *)
(* assignment; each of those reads or writes the list in one step.         *)
(***************************************************************************)
SharedLists == { List(<<>>), List(<<Leaf("x")>>), List(<<Leaf("x"), None>>) }

ThreadKeys == { IntTok(0), IntTok(1), IntTok(2), IntTok(-1), StrTok(<<"1">>), A }

ThreadValues == { Leaf("v"), Leaf("0") }

\* the other threads that are between their index resolution and their write
\* see this thread run in the middle of their call
Preempt(t) ==
    [u \in Threads |->
        IF u # t /\ th[u].pc \in {"test", "append", "assign"}
        THEN [th[u] EXCEPT !.interleaved = TRUE] ELSE th[u]]

InitConc ==
    /\ root \in SharedLists
    /\ call = NoCall
    /\ pre = root
    /\ result = NoResult
    /\ nops = 0
    /\ th = [t \in Threads |-> IdleThread]
    /\ insp = NoInspection

\* set_at(root, [key], value, create=c) up to idx = resolve_write_index(current, final_key)
SetAtResolve(t) ==
    /\ th[t].pc = "idle"
    /\ \E k \in ThreadKeys, v \in ThreadValues, c \in BOOLEAN :
        \E r \in {set_final_resolve(root, k)} :
           th' = [Preempt(t) EXCEPT ![t] =
                     [pc |-> IF r.out.exc = "none" THEN "test" ELSE "done",
                      key |-> k, value |-> v, create |-> c, idx |-> r.idx,
                      out |-> r.out, seen |-> IF r.out.exc = "none" THEN None ELSE root,
                      interleaved |-> FALSE]]
    /\ UNCHANGED <<root, call, pre, result, nops, insp>>

\* if idx == len(current): ... else: ...
SetAtTest(t) ==
    /\ th[t].pc = "test"
    /\ \E b \in {set_final_list_branch(root, th[t].idx, th[t].create)} :
           th' = [Preempt(t) EXCEPT ![t] =
                     IF b = "raise"
                     THEN [th[t] EXCEPT !.pc = "done", !.out = Raise("INVALID_INDEX"),
                                        !.seen = root]
                     ELSE [th[t] EXCEPT !.pc = b]]
    /\ UNCHANGED <<root, call, pre, result, nops, insp>>

\* current.append(value)
SetAtAppend(t) ==
    /\ th[t].pc = "append"
    /\ root' = SeqAppend(root, th[t].value)
    /\ th' = [Preempt(t) EXCEPT ![t] = [th[t] EXCEPT !.pc = "done", !.seen = root']]
    /\ UNCHANGED <<call, pre, result, nops, insp>>

\* current[idx] = value
SetAtAssign(t) ==
    /\ th[t].pc = "assign"
    /\ root' = SeqPut(root, th[t].idx, th[t].value)
    /\ th' = [Preempt(t) EXCEPT ![t] = [th[t] EXCEPT !.pc = "done", !.seen = root']]
    /\ UNCHANGED <<call, pre, result, nops, insp>>

NextConc ==
    \E t \in Threads : SetAtResolve(t) \/ SetAtTest(t) \/ SetAtAppend(t) \/ SetAtAssign(t)

SpecConc == InitConc /\ [][NextConc]_vars

(***************************************************************************)
(* introspection.py applied to nested structures of dicts, lists, tuples   *)
(* and leaves, among them lists nested MAX_DEPTH and MAX_DEPTH + 1 deep.   *)
(***************************************************************************)
IntroLeaves == { Leaf("x"), None }

\* keys of the dicts: strings (one with a dot, a numeral, the empty string),
\* the integer 1 and the float 1.5
IntroKeys ==
    { A, StrTok(<<"a", ".", "b">>), StrTok(<<"0">>), StrTok(<<>>), IntTok(1),
      OtherTok(<<"1", ".", "5">>) }

IntroFlat ==
    IntroLeaves
        \cup { Dict(EmptyMap), List(<<>>), Tuple(<<>>) }
        \cup { Dict(Map1(k, v)) : k \in IntroKeys, v \in IntroLeaves }
        \cup { List(<<v>>) : v \in IntroLeaves }
        \cup { Tuple(<<v, w>>) : v \in IntroLeaves, w \in IntroLeaves }

IntroNested ==
    { Dict(Map1(k, x)) : k \in IntroKeys, x \in IntroFlat }
        \cup { List(<<x, y>>) : x \in IntroFlat, y \in IntroLeaves }
        \cup { Tuple(<<x>>) : x \in IntroFlat }
        \cup { Dict(Map2(A, x, B, y)) : x \in IntroFlat, y \in {Leaf("x"), List(<<>>)} }
        \cup { Dict(Map1(A, List(<<Tuple(<<y, Dict(Map1(B, None))>>)>>))) : y \in IntroLeaves }

\* x inside n one-element lists; the nesting is built by halves, the inner
\* half first
RECURSIVE Nest(_, _)
RECURSIVE NestAround(_, _)
Nest(n, x) ==
    IF n = 0 THEN x
    ELSE IF n = 1 THEN List(<<x>>)
    ELSE NestAround(n \div 2, Nest(n - n \div 2, x))
NestAround(n, inner) == IF inner.kind = "" THEN inner ELSE Nest(n, inner)

DeepList(n) == Nest(n, Leaf("x"))

IntroRoots ==
    IntroFlat \cup IntroNested \cup { DeepList(MAX_DEPTH), DeepList(MAX_DEPTH + 1) }

InitIntro ==
    /\ root \in IntroRoots
    /\ call = NoCall
    /\ pre = root
    /\ result = NoResult
    /\ nops = 0
    /\ th = [t \in Threads |-> IdleThread]
    /\ insp = NoInspection

\* count_leaves(root) is called.  The recursion is followed call by call,
\* depth first as Python makes the calls, with the calls not yet made kept in
\* cpending.
CountLeaves ==
    /\ insp.cpc = "idle"
    /\ insp' = [insp EXCEPT !.cpc = "run", !.cpending = <<root>>, !.count = 0]
    /\ UNCHANGED <<root, call, pre, result, nops, th>>

CountLeavesCall ==
    /\ insp.cpc = "run"
    /\ insp.cpending # <<>>
    /\ \E r \in {count_leaves_call(Head(insp.cpending), Tail(insp.cpending), insp.count)} :
           insp' = [insp EXCEPT !.cpending = r.pending, !.count = r.count]
    /\ UNCHANGED <<root, call, pre, result, nops, th>>

CountLeavesReturn ==
    /\ insp.cpc = "run"
    /\ insp.cpending = <<>>
    /\ insp' = [insp EXCEPT !.cpc = "done"]
    /\ UNCHANGED <<root, call, pre, result, nops, th>>

\* get_all_paths(root): recurse(data, [])
GetAllPaths ==
    /\ insp.ppc = "idle"
    /\ insp' = [insp EXCEPT !.ppc = "run",
                            !.ppending = <<[current |-> root, prefix |-> <<>>]>>,
                            !.paths = <<>>]
    /\ UNCHANGED <<root, call, pre, result, nops, th>>

RecurseCall ==
    /\ insp.ppc = "run"
    /\ insp.ppending # <<>>
    /\ \E r \in {recurse_call(Head(insp.ppending), Tail(insp.ppending), insp.paths)} :
           insp' = [insp EXCEPT !.ppending = r.pending, !.paths = r.paths]
    /\ UNCHANGED <<root, call, pre, result, nops, th>>

GetAllPathsReturn ==
    /\ insp.ppc = "run"
    /\ insp.ppending = <<>>
    /\ insp' = [insp EXCEPT !.ppc = "done"]
    /\ UNCHANGED <<root, call, pre, result, nops, th>>

NextIntro ==
    \/ CountLeaves \/ CountLeavesCall \/ CountLeavesReturn
    \/ GetAllPaths \/ RecurseCall \/ GetAllPathsReturn

SpecIntro == InitIntro /\ [][NextIntro]_vars

(***************************************************************************)
(* Vocabulary of the properties.                                           *)
(***************************************************************************)
Keys == normalize_path(call.path).keys
PathOk == normalize_path(call.path).out.exc = "none"
Succeeded == result.exc = "none"
RaisedCode(c) == result.exc = "PathError" /\ result.code = c

\* what one read step meets, in the words of the specification
StepCase(node, key) ==
    IF node.kind = "dict"
    THEN IF DictKey(key) \in DOMAIN node.m THEN "ok" ELSE "absent_key"
    ELSE IF node.kind \in {"list", "tuple"}
    THEN IF ~is_int_key(key) THEN "non_index_token"
         ELSE IF parse_int_key(key) >= Len(node.s) \/ parse_int_key(key) < 0 - Len(node.s)
         THEN "out_of_range"
         ELSE "ok"
    ELSE "leaf"

StepChild(node, key) ==
    IF node.kind = "dict" THEN node.m[DictKey(key)]
    ELSE IF parse_int_key(key) >= 0 THEN node.s[parse_int_key(key) + 1]
    ELSE node.s[Len(node.s) + parse_int_key(key) + 1]

\* the nodes a read walk visits from data, as far as the keys resolve
RECURSIVE NodesOnWalk(_, _)
NodesOnWalk(data, keys) ==
    IF keys = <<>> THEN <<data>>
    ELSE IF StepCase(data, Head(keys)) = "ok"
    THEN <<data>> \o NodesOnWalk(StepChild(data, Head(keys)), Tail(keys))
    ELSE <<data>>

Resolves(data, keys) == Len(NodesOnWalk(data, keys)) = Len(keys) + 1
ValueAt(data, keys) == NodesOnWalk(data, keys)[Len(keys) + 1]

\* the case of the first step that fails, when the keys do not resolve
FailingCase(data, keys) ==
    LET ns == NodesOnWalk(data, keys) IN StepCase(ns[Len(ns)], keys[Len(ns)])

\* the container the final key applies to in data, when keys[:-1] resolve
HasFinalContainer(data, keys) ==
    keys # <<>> /\ Resolves(data, SubSeq(keys, 1, Len(keys) - 1))
FinalContainer(data, keys) == ValueAt(data, SubSeq(keys, 1, Len(keys) - 1))
FinalKey(keys) == keys[Len(keys)]

\* a tuple lies on the way to the final container
TupleBeforeFinal(data, keys) ==
    LET ns == NodesOnWalk(data, SubSeq(keys, 1, Len(keys) - 1))
    IN \E i \in 1..Len(ns) : i < Len(keys) /\ ns[i].kind = "tuple"

(***************************************************************************)
(* C1: round trip.  When set_at(root, p, v, create=True) returns without   *)
(* error, get_at(root, p) on the root it leaves returns exactly v.         *)
(***************************************************************************)
C1_RoundTrip ==
    (call.op = "set_at" /\ call.create /\ Succeeded) =>
        LET g == get_at(root, call.path, FALSE, None)
        IN g.out.exc = "none" /\ g.ret = call.value

\* a successful creating set at a path the root did not resolve before,
\* through a list index (append or negative)
C1_Witness ==
    /\ call.op = "set_at" /\ call.create /\ Succeeded
    /\ Len(Keys) = 2
    /\ is_int_key(Keys[2])
    /\ get_at(pre, call.path, FALSE, None).out.exc # "none"
    /\ root # pre

(***************************************************************************)
(* C2: get_at with a default never raises for navigation reasons: it       *)
(* returns the default exactly when the walk fails, the stored value (None,*)
(* False, 0, '' included) when it resolves, and still raises EMPTY_PATH or *)
(* INVALID_PATH for a malformed path.                                      *)
(***************************************************************************)
C2_GetWithDefault ==
    (call.op = "get_at" /\ call.hasDefault) =>
        IF ~PathOk
        THEN result.exc = "PathError" /\ result.code \in {"EMPTY_PATH", "INVALID_PATH"}
        ELSE /\ Succeeded
             /\ IF Resolves(pre, Keys)
                THEN result.ret = ValueAt(pre, Keys) /\ result.ret # call.default
                ELSE /\ FailingCase(pre, Keys) \in
                          {"absent_key", "out_of_range", "non_index_token", "leaf"}
                     /\ result.ret = call.default

\* the walk resolved to a stored None, False, 0 or '' and that was returned
C2_Witness ==
    /\ call.op = "get_at" /\ call.hasDefault /\ PathOk
    /\ Resolves(pre, Keys)
    /\ result.ret \in {None, Leaf("False"), Leaf("0"), Leaf("''")}
    /\ result.ret # call.default

\* navigation into a leaf with a default given
C2_WitnessLeaf ==
    /\ call.op = "get_at" /\ call.hasDefault /\ PathOk
    /\ ~Resolves(pre, Keys)
    /\ FailingCase(pre, Keys) = "leaf"
    /\ result.ret = call.default

(***************************************************************************)
(* C3: get_at without a default raises PathError classified by the first   *)
(* failing step: MissingKey for an absent mapping key, InvalidIndex for an *)
(* out-of-range index or a non-index token on a list or tuple, and         *)
(* NonNavigable when a token remains at a leaf.                            *)
(***************************************************************************)
ExpectedGetCode(case) ==
    CASE case = "absent_key" -> "MISSING_KEY"
      [] case = "out_of_range" -> "INVALID_INDEX"
      [] case = "non_index_token" -> "INVALID_INDEX"
      [] case = "leaf" -> "NON_NAVIGABLE_TYPE"
      [] OTHER -> ""

C3_GetRaisesClassified ==
    (call.op = "get_at" /\ ~call.hasDefault /\ PathOk /\ ~Resolves(pre, Keys)) =>
        /\ result.exc = "PathError"
        /\ result.code = ExpectedGetCode(FailingCase(pre, Keys))

\* what the code does hold to: the three classifications enums.py defines
C3_GetRaisesDefinedCodes ==
    (call.op = "get_at" /\ ~call.hasDefault /\ PathOk /\ ~Resolves(pre, Keys)
        /\ FailingCase(pre, Keys) # "leaf") =>
        /\ result.exc = "PathError"
        /\ result.code = ExpectedGetCode(FailingCase(pre, Keys))

(***************************************************************************)
(* C4: exists_at never raises for navigation reasons: it returns True      *)
(* exactly when the path resolves and False when get_at would fail with    *)
(* MissingKey, InvalidIndex or NonNavigable; only EMPTY_PATH and           *)
(* INVALID_PATH propagate.                                                 *)
(***************************************************************************)
C4_ExistsNeverRaises ==
    (call.op = "exists_at") =>
        IF ~PathOk
        THEN result.exc = "PathError" /\ result.code \in {"EMPTY_PATH", "INVALID_PATH"}
        ELSE /\ Succeeded
             /\ result.ret = IF Resolves(pre, Keys) THEN Leaf("True") ELSE Leaf("False")

(***************************************************************************)
(* More vocabulary: prefixes of the path and the tree with one node        *)
(* replaced.                                                               *)
(***************************************************************************)
Prefix(keys, i) == SubSeq(keys, 1, i)
Parent(keys) == SubSeq(keys, 1, Len(keys) - 1)

\* position in a sequence node that an in-range index token denotes
Pos(node, key) ==
    IF parse_int_key(key) >= 0 THEN parse_int_key(key) + 1
    ELSE Len(node.s) + parse_int_key(key) + 1

\* data with the node that keys resolve to replaced by val
RECURSIVE ReplaceAt(_, _, _)
ReplaceAt(data, keys, val) ==
    IF keys = <<>> THEN val
    ELSE IF data.kind = "dict"
    THEN [data EXCEPT !.m[DictKey(Head(keys))] =
              ReplaceAt(data.m[DictKey(Head(keys))], Tail(keys), val)]
    ELSE [data EXCEPT !.s[Pos(data, Head(keys))] =
              ReplaceAt(data.s[Pos(data, Head(keys))], Tail(keys), val)]

\* no tuple among the containers of the first i keys
NoTupleUpTo(data, keys, i) ==
    \A j \in 1..i : j <= Len(NodesOnWalk(data, keys)) => NodesOnWalk(data, keys)[j].kind # "tuple"

(***************************************************************************)
(* C5: set_at with create=False fails with MissingKey when a non-final     *)
(* token names a mapping key that is absent or holds None, and leaves the  *)
(* root alone; with create=True a dict or list is materialized at that key.*)
(***************************************************************************)
\* the i-th key is not the last, its container in pre is a dict reached
\* without crossing a tuple, and the key is absent there or holds None
MissingStepAt(i) ==
    /\ i < Len(Keys)
    /\ Resolves(pre, Prefix(Keys, i - 1))
    /\ NoTupleUpTo(pre, Keys, i)
    /\ ValueAt(pre, Prefix(Keys, i - 1)).kind = "dict"
    /\ \/ StepCase(ValueAt(pre, Prefix(Keys, i - 1)), Keys[i]) = "absent_key"
       \/ StepChild(ValueAt(pre, Prefix(Keys, i - 1)), Keys[i]) = None

C5_WitnessCreate ==
    /\ call.op = "set_at" /\ PathOk /\ call.create
    /\ \E i \in 1..Len(Keys) :
          /\ MissingStepAt(i)
          /\ StepCase(ValueAt(pre, Prefix(Keys, i - 1)), Keys[i]) = "absent_key"
    /\ Succeeded

(***************************************************************************)
(* C6: strict write resolution.  For set_at with create=True whose final   *)
(* container is a list of length n and whose final token is the index t:   *)
(* 0 <= t < n replaces slot t, t = n appends, t > n is InvalidIndex,       *)
(* t < 0 replaces slot n+t when n+t >= 0 and is InvalidIndex otherwise.    *)
(* No set_at call lengthens a list on its path by more than one element    *)
(* or changes the elements beside it.                                      *)
(***************************************************************************)
FinalIsList ==
    /\ HasFinalContainer(pre, Keys)
    /\ NoTupleUpTo(pre, Keys, Len(Keys))
    /\ FinalContainer(pre, Keys).kind = "list"

ReplacedSlot(old, new, pos, v) ==
    /\ Len(new) = Len(old)
    /\ \A j \in 1..Len(old) : new[j] = IF j = pos THEN v ELSE old[j]

C6_FinalIndexCases ==
    (call.op = "set_at" /\ call.create /\ PathOk /\ FinalIsList /\ is_int_key(FinalKey(Keys))) =>
        LET old == FinalContainer(pre, Keys).s
            n == Len(old)
            t == parse_int_key(FinalKey(Keys))
            new == FinalContainer(root, Keys).s
        IN IF 0 <= t /\ t < n THEN Succeeded /\ ReplacedSlot(old, new, t + 1, call.value)
           ELSE IF t = n THEN Succeeded /\ new = Append(old, call.value)
           ELSE IF t > n THEN RaisedCode("INVALID_INDEX") /\ root = pre
           ELSE IF n + t >= 0 THEN Succeeded /\ ReplacedSlot(old, new, n + t + 1, call.value)
           ELSE RaisedCode("INVALID_INDEX") /\ root = pre

\* a list on the path keeps its elements; at most one slot changes or one is added
C6_NoSparseGrowth ==
    (call.op = "set_at" /\ PathOk) =>
        \A i \in 0..(Len(Keys) - 1) :
            /\ (Resolves(pre, Prefix(Keys, i)) /\ ValueAt(pre, Prefix(Keys, i)).kind = "list") =>
                  LET old == ValueAt(pre, Prefix(Keys, i)).s
                      new == ValueAt(root, Prefix(Keys, i)).s
                  IN /\ Len(new) \in {Len(old), Len(old) + 1}
                     /\ Cardinality({j \in 1..Len(old) : new[j] # old[j]}) <= 1
                     /\ Len(new) = Len(old) + 1 => \A j \in 1..Len(old) : new[j] = old[j]
            /\ (Resolves(root, Prefix(Keys, i)) /\ ValueAt(root, Prefix(Keys, i)).kind = "list"
                  /\ ~(Resolves(pre, Prefix(Keys, i)) /\ ValueAt(pre, Prefix(Keys, i)).kind = "list")) =>
                  Len(ValueAt(root, Prefix(Keys, i)).s) <= 1

C6_WitnessNegative ==
    /\ call.op = "set_at" /\ call.create /\ PathOk /\ FinalIsList /\ is_int_key(FinalKey(Keys))
    /\ parse_int_key(FinalKey(Keys)) < 0 - Len(FinalContainer(pre, Keys).s)
    /\ RaisedCode("INVALID_INDEX")

(***************************************************************************)
(* C7: delete_at whose final container is a list fails unless              *)
(* allow_list_mutation=True, for every token, and leaves the list          *)
(* unchanged; with allow_list_mutation=True and a valid index it removes   *)
(* and returns that element.                                               *)
(***************************************************************************)
DeleteFinalIsList ==
    /\ call.op = "delete_at" /\ PathOk
    /\ HasFinalContainer(pre, Keys)
    /\ FinalContainer(pre, Keys).kind = "list"

ValidIndexOf(node, key) ==
    is_int_key(key) /\ StepCase(node, key) = "ok"

C7_WitnessValid ==
    /\ DeleteFinalIsList /\ ~call.allow
    /\ ValidIndexOf(FinalContainer(pre, Keys), FinalKey(Keys))
    /\ RaisedCode("INVALID_PATH")

(***************************************************************************)
(* C8: delete shifts indices.  delete_at with allow_list_mutation=True on  *)
(* index i (negative resolved as n+i) of a list of length n returns the    *)
(* element at i, leaves length n-1, keeps the elements before i and moves  *)
(* each element at j > i to j-1; an index outside [-n, n-1] is             *)
(* InvalidIndex.                                                           *)
(***************************************************************************)
C8_DeleteShifts ==
    (DeleteFinalIsList /\ call.allow /\ is_int_key(FinalKey(Keys))) =>
        LET old == FinalContainer(pre, Keys).s
            n == Len(old)
            i == parse_int_key(FinalKey(Keys))
            r == IF i < 0 THEN n + i ELSE i
            new == FinalContainer(root, Keys).s
        IN IF 0 - n <= i /\ i <= n - 1
           THEN /\ Succeeded
                /\ result.ret = old[r + 1]
                /\ Len(new) = n - 1
                /\ \A j \in 0..(n - 1) : j < r => new[j + 1] = old[j + 1]
                /\ \A j \in 0..(n - 1) : j > r => new[j] = old[j + 1]
                /\ root = ReplaceAt(pre, Parent(Keys), [FinalContainer(pre, Keys) EXCEPT !.s = new])
           ELSE RaisedCode("INVALID_INDEX") /\ root = pre

\* an element was removed in front of another, which moved down
C8_Witness ==
    /\ DeleteFinalIsList /\ call.allow /\ is_int_key(FinalKey(Keys)) /\ Succeeded
    /\ Len(FinalContainer(pre, Keys).s) >= 2
    /\ Len(FinalContainer(root, Keys).s) >= 1
    /\ FinalContainer(root, Keys).s[1] = FinalContainer(pre, Keys).s[2]

\* a negative index removed the last element
C8_WitnessNegative ==
    /\ DeleteFinalIsList /\ call.allow /\ is_int_key(FinalKey(Keys)) /\ Succeeded
    /\ parse_int_key(FinalKey(Keys)) < 0

(***************************************************************************)
(* C9: delete_at whose final container is a mapping removes exactly the    *)
(* named key and returns the value it held (None, False, 0 included);      *)
(* every other key and the rest of the root are unchanged; an absent key   *)
(* is MissingKey.                                                          *)
(***************************************************************************)
DeleteFinalIsDict ==
    /\ call.op = "delete_at" /\ PathOk
    /\ HasFinalContainer(pre, Keys)
    /\ FinalContainer(pre, Keys).kind = "dict"

C9_DeleteFromMapping ==
    DeleteFinalIsDict =>
        LET old == FinalContainer(pre, Keys)
            k == DictKey(FinalKey(Keys))
        IN IF k \in DOMAIN old.m
           THEN /\ Succeeded
                /\ result.ret = old.m[k]
                /\ HasFinalContainer(root, Keys)
                /\ DOMAIN FinalContainer(root, Keys).m = DOMAIN old.m \ {k}
                /\ \A x \in DOMAIN old.m \ {k} : FinalContainer(root, Keys).m[x] = old.m[x]
                /\ ReplaceAt(root, Parent(Keys), old) = pre
           ELSE RaisedCode("MISSING_KEY") /\ root = pre

\* a key holding None or False was removed and that value returned, a sibling stayed
C9_Witness ==
    /\ DeleteFinalIsDict /\ Succeeded
    /\ result.ret \in {None, Leaf("False"), Leaf("0")}
    /\ DOMAIN FinalContainer(root, Keys).m # {}

(***************************************************************************)
(* C10: immutable sequence rejection.  A set_at whose walk reaches a tuple *)
(* (as an intermediate node or as the final container) fails with          *)
(* ImmutableContainer whatever the token and create; a delete_at whose     *)
(* final container is a tuple fails with ImmutableContainer whatever       *)
(* allow_list_mutation; the root is unchanged, and no call changes the     *)
(* slots of a tuple on its path.                                           *)
(***************************************************************************)
\* a container of one of the keys, in pre, is a tuple
SetReachesTuple ==
    /\ call.op = "set_at" /\ PathOk
    /\ \E j \in 1..Len(Keys) :
          j <= Len(NodesOnWalk(pre, Parent(Keys))) /\ NodesOnWalk(pre, Parent(Keys))[j].kind = "tuple"

DeleteFinalIsTuple ==
    /\ call.op = "delete_at" /\ PathOk
    /\ HasFinalContainer(pre, Keys)
    /\ FinalContainer(pre, Keys).kind = "tuple"

\* the same slots: equal leaves, and containers of the same kind in place
SameSlots(old, new) ==
    /\ new.kind = "tuple"
    /\ Len(new.s) = Len(old.s)
    /\ \A j \in 1..Len(old.s) :
          IF old.s[j].kind = "leaf" THEN new.s[j] = old.s[j] ELSE new.s[j].kind = old.s[j].kind

C10_TupleRejection ==
    /\ SetReachesTuple => RaisedCode("IMMUTABLE_CONTAINER") /\ root = pre
    /\ DeleteFinalIsTuple => RaisedCode("IMMUTABLE_CONTAINER") /\ root = pre
    /\ (call.op \in {"set_at", "delete_at"} /\ PathOk) =>
          \A i \in 0..(Len(Keys) - 1) :
              (Resolves(pre, Prefix(Keys, i)) /\ ValueAt(pre, Prefix(Keys, i)).kind = "tuple") =>
                  /\ Resolves(root, Prefix(Keys, i))
                  /\ SameSlots(ValueAt(pre, Prefix(Keys, i)), ValueAt(root, Prefix(Keys, i)))

\* set_at with create=True and a valid index on a tuple as final container
C10_Witness ==
    /\ SetReachesTuple /\ call.create
    /\ HasFinalContainer(pre, Keys) /\ FinalContainer(pre, Keys).kind = "tuple"
    /\ ValidIndexOf(FinalContainer(pre, Keys), FinalKey(Keys))
    /\ RaisedCode("IMMUTABLE_CONTAINER")

\* set_at stopped at a tuple met as an intermediate node
C10_WitnessIntermediate ==
    /\ SetReachesTuple
    /\ Len(Keys) >= 2 /\ pre.kind = "tuple"
    /\ RaisedCode("IMMUTABLE_CONTAINER")

\* delete_at with allow_list_mutation=True on a tuple as final container
C10_WitnessDelete ==
    /\ DeleteFinalIsTuple /\ call.allow
    /\ RaisedCode("IMMUTABLE_CONTAINER")

(***************************************************************************)
(* C11: negative indices on reads.  For get_at whose final container is a  *)
(* list or tuple of length n and whose final token is the index -k:        *)
(* when 1 <= k <= n the call returns the element that index n-k returns;   *)
(* when k > n (any k when n = 0) the step is not found: the default is     *)
(* returned, or InvalidIndex is raised when no default was given.          *)
(***************************************************************************)
NegativeFinalRead ==
    /\ call.op = "get_at" /\ PathOk
    /\ HasFinalContainer(pre, Keys)
    /\ FinalContainer(pre, Keys).kind \in {"list", "tuple"}
    /\ is_int_key(FinalKey(Keys))
    /\ parse_int_key(FinalKey(Keys)) < 0

C11_WitnessBeyond ==
    /\ NegativeFinalRead
    /\ Len(FinalContainer(pre, Keys).s) = 1
    /\ parse_int_key(FinalKey(Keys)) = -2
    /\ RaisedCode("INVALID_INDEX")

\* a negative index on an empty list returned the default
C11_WitnessEmpty ==
    /\ NegativeFinalRead
    /\ FinalContainer(pre, Keys).s = <<>>
    /\ call.hasDefault
    /\ result.ret = call.default

(***************************************************************************)
(* C12: a path that is the empty string, the empty list, or holds an empty *)
(* token makes get_at, exists_at, set_at and delete_at fail with EmptyPath *)
(* and leaves the root alone.                                              *)
(***************************************************************************)
\* the path as the caller wrote it: "", ".a", "a.", "a..b", [], [.., "", ..]
HasEmptyToken(path) ==
    IF path.form = "str"
    THEN \/ path.chars = <<>>
         \/ path.chars[1] = "."
         \/ path.chars[Len(path.chars)] = "."
         \/ \E i \in 1..(Len(path.chars) - 1) : path.chars[i] = "." /\ path.chars[i + 1] = "."
    ELSE IF path.form = "list"
    THEN \/ path.elems = <<>>
         \/ \E i \in 1..Len(path.elems) : path.elems[i] = StrTok(<<>>)
    ELSE FALSE

\* the number of tokens of a string or list path
TokenCount(path) ==
    IF path.form = "str"
    THEN Cardinality({i \in 1..Len(path.chars) : path.chars[i] = "."}) + 1
    ELSE Len(path.elems)

AccessCalls == {"get_at", "exists_at", "set_at", "delete_at"}

C12_EmptyPathRejected ==
    (call.op \in AccessCalls /\ HasEmptyToken(call.path)) =>
        RaisedCode("EMPTY_PATH") /\ root = pre

\* what the code does: EmptyPath from get_at, set_at and delete_at, unless a
\* string path has more than MAX_DEPTH tokens; never from exists_at
C12_EmptyPathAsCoded ==
    (call.op \in AccessCalls /\ HasEmptyToken(call.path)) =>
        /\ root = pre
        /\ IF call.op = "exists_at"
           THEN result.exc = "AttributeError"
           ELSE IF call.path.form = "str" /\ TokenCount(call.path) > MAX_DEPTH
           THEN RaisedCode("INVALID_PATH")
           ELSE RaisedCode("EMPTY_PATH")

(***************************************************************************)
(* C13: a path that is neither a string nor a list, or that has more than  *)
(* MAX_DEPTH tokens, makes the call fail with InvalidPath; a path of       *)
(* exactly MAX_DEPTH tokens is accepted.                                   *)
(***************************************************************************)
C13_InvalidPathRejected ==
    call.op \in AccessCalls =>
        /\ (call.path.form = "other" \/ TokenCount(call.path) > MAX_DEPTH) =>
              RaisedCode("INVALID_PATH") /\ root = pre
        /\ (call.op \in {"get_at", "exists_at"} /\ call.path.form # "other"
              /\ TokenCount(call.path) = MAX_DEPTH /\ ~HasEmptyToken(call.path)) =>
              ~RaisedCode("INVALID_PATH")

\* what the code does: InvalidPath from get_at, set_at and delete_at, unless a
\* list path holds an empty string; never from exists_at
C13_InvalidPathAsCoded ==
    call.op \in AccessCalls =>
        /\ (call.path.form = "other" \/ TokenCount(call.path) > MAX_DEPTH) =>
              /\ root = pre
              /\ IF call.op = "exists_at"
                 THEN result.exc = "AttributeError"
                 ELSE IF call.path.form = "list" /\ HasEmptyToken(call.path)
                 THEN RaisedCode("EMPTY_PATH")
                 ELSE RaisedCode("INVALID_PATH")
        /\ (call.op = "get_at" /\ call.path.form # "other"
              /\ TokenCount(call.path) = MAX_DEPTH /\ ~HasEmptyToken(call.path)) =>
              IF call.hasDefault THEN Succeeded ELSE result.code # "INVALID_PATH"

\* a get_at with a path of MAX_DEPTH + 1 tokens was rejected
C13_WitnessDepth ==
    /\ call.op = "get_at"
    /\ TokenCount(call.path) = MAX_DEPTH + 1
    /\ RaisedCode("INVALID_PATH")

(***************************************************************************)
(* C14: the kind of a token matters on sequences only.  On a dict a token  *)
(* is the key it is in the path, a string from a string path and the       *)
(* element itself from a list path, so the integer 0 and the string "0"    *)
(* are two keys; on a list or tuple both a numeral and an integer index.   *)
(***************************************************************************)
NativeToken(t) == t.k \in {"str", "int"}

\* the tokens are the pieces of the string path, or the elements of the list path
KeepsNativeKinds ==
    PathOk =>
        IF call.path.form = "str"
        THEN \A i \in 1..Len(Keys) : Keys[i].k = "str"
        ELSE \A i \in 1..Len(Keys) :
                NativeToken(call.path.elems[i]) => Keys[i] = call.path.elems[i]

FinalOnDict ==
    /\ PathOk
    /\ HasFinalContainer(pre, Keys)
    /\ NoTupleUpTo(pre, Keys, Len(Keys) - 1)
    /\ FinalContainer(pre, Keys).kind = "dict"
    /\ NativeToken(FinalKey(Keys))

C14_LiteralKeyOnDict ==
    /\ (call.op = "get_at" /\ ~call.hasDefault /\ FinalOnDict) =>
          IF FinalKey(Keys) \in DOMAIN FinalContainer(pre, Keys).m
          THEN Succeeded /\ result.ret = FinalContainer(pre, Keys).m[FinalKey(Keys)]
          ELSE RaisedCode("MISSING_KEY")
    /\ (call.op = "set_at" /\ FinalOnDict) =>
          /\ Succeeded
          /\ DOMAIN FinalContainer(root, Keys).m =
                DOMAIN FinalContainer(pre, Keys).m \cup {FinalKey(Keys)}
          /\ \A x \in DOMAIN FinalContainer(root, Keys).m :
                FinalContainer(root, Keys).m[x] =
                   IF x = FinalKey(Keys) THEN call.value ELSE FinalContainer(pre, Keys).m[x]
    /\ (call.op = "delete_at" /\ FinalOnDict /\ Succeeded) =>
          DOMAIN FinalContainer(root, Keys).m =
             DOMAIN FinalContainer(pre, Keys).m \ {FinalKey(Keys)}

\* on a list or tuple a numeral and the integer it denotes read the same slot
C14_NumeralIndexOnSequence ==
    (call.op = "get_at" /\ ~call.hasDefault /\ PathOk /\ HasFinalContainer(pre, Keys)
        /\ FinalContainer(pre, Keys).kind \in {"list", "tuple"}
        /\ NativeToken(FinalKey(Keys)) /\ is_int_key(FinalKey(Keys))) =>
        LET q == FinalContainer(pre, Keys).s
            t == parse_int_key(FinalKey(Keys))
        IN IF 0 <= t /\ t < Len(q) THEN Succeeded /\ result.ret = q[t + 1]
           ELSE IF t < 0 /\ Len(q) + t >= 0 THEN Succeeded /\ result.ret = q[Len(q) + t + 1]
           ELSE RaisedCode("INVALID_INDEX")

C14_TokenKind ==
    (call.op \in AccessCalls) =>
        KeepsNativeKinds /\ C14_LiteralKeyOnDict /\ C14_NumeralIndexOnSequence

\* the string path "0" did not find the integer key 0 of a dict
C14_Witness ==
    /\ call.op = "get_at" /\ ~call.hasDefault /\ FinalOnDict
    /\ FinalKey(Keys) = StrTok(<<"0">>)
    /\ IntTok(0) \in DOMAIN FinalContainer(pre, Keys).m
    /\ RaisedCode("MISSING_KEY")

\* a dict came to hold both the integer key 0 and the string key "0"
C14_WitnessBothKeys ==
    /\ call.op = "set_at" /\ FinalOnDict /\ Succeeded
    /\ {IntTok(0), StrTok(<<"0">>)} \subseteq DOMAIN FinalContainer(root, Keys).m
    /\ FinalKey(Keys) \notin DOMAIN FinalContainer(pre, Keys).m

\* the numeral "1" read the second element of a list
C14_WitnessNumeral ==
    /\ call.op = "get_at" /\ PathOk /\ HasFinalContainer(pre, Keys)
    /\ FinalContainer(pre, Keys).kind = "list"
    /\ FinalKey(Keys) = StrTok(<<"1">>)
    /\ Succeeded
    /\ result.ret = FinalContainer(pre, Keys).s[2]

(***************************************************************************)
(* C15: the container factory.  A container that set_at with create=True   *)
(* puts at a non-final step, where the root had nothing or None, is a list *)
(* when the next token is an index token (an integer or a numeral, also a  *)
(* negative one) and a dict otherwise.                                     *)
(***************************************************************************)
\* after the call the first i keys lead to a container that was not there before
NewContainerAt(i) ==
    /\ i < Len(Keys)
    /\ Resolves(root, Prefix(Keys, i))
    /\ ValueAt(root, Prefix(Keys, i)).kind \in {"dict", "list"}
    /\ \/ ~Resolves(pre, Prefix(Keys, i))
       \/ ValueAt(pre, Prefix(Keys, i)) = None

C15_WitnessDict ==
    /\ call.op = "set_at" /\ PathOk /\ call.create /\ Succeeded
    /\ \E i \in 1..Len(Keys) :
          /\ NewContainerAt(i)
          /\ Resolves(pre, Prefix(Keys, i))
          /\ ValueAt(pre, Prefix(Keys, i)) = None
          /\ ValueAt(root, Prefix(Keys, i)).kind = "dict"

\* a list was appended to a list
C15_WitnessNested ==
    /\ call.op = "set_at" /\ PathOk /\ call.create /\ Succeeded
    /\ \E i \in 1..Len(Keys) :
          /\ NewContainerAt(i)
          /\ Resolves(pre, Prefix(Keys, i - 1))
          /\ ValueAt(pre, Prefix(Keys, i - 1)).kind = "list"
          /\ ValueAt(root, Prefix(Keys, i)).kind = "list"

(***************************************************************************)
(* C16: gap filling.  set_at called with the none-fill strategy and an     *)
(* index t beyond the end of a list of length n succeeds: the list becomes *)
(* t+1 long, the slots n..t-1 hold None and slot t holds the value.  An    *)
(* unrecognized strategy fails with InvalidFillStrategy.                   *)
(***************************************************************************)
KnownFillStrategies == {"auto", "none", "dict", "list"}

GapFilled(old, new, t, v) ==
    /\ Len(new) = t + 1
    /\ \A j \in 1..(t + 1) :
          new[j] = IF j <= Len(old) THEN old[j] ELSE IF j = t + 1 THEN v ELSE None

C16_GapFilling ==
    (call.op = "set_at_fill" /\ PathOk) =>
        IF call.fill \notin KnownFillStrategies
        THEN RaisedCode("INVALID_FILL_STRATEGY")
        ELSE (call.fill = "none" /\ FinalIsList /\ is_int_key(FinalKey(Keys))
                 /\ parse_int_key(FinalKey(Keys)) > Len(FinalContainer(pre, Keys).s)) =>
                /\ Succeeded
                /\ GapFilled(FinalContainer(pre, Keys).s, FinalContainer(root, Keys).s,
                             parse_int_key(FinalKey(Keys)), call.value)

\* what the code does: the keyword is not one set_at takes
C16_FillKeywordRejected ==
    call.op = "set_at_fill" => result.exc = "TypeError" /\ root = pre

\* an index beyond the end of a list, with the none-fill strategy
C16_WitnessGap ==
    /\ call.op = "set_at_fill" /\ PathOk /\ call.fill = "none"
    /\ FinalIsList /\ is_int_key(FinalKey(Keys))
    /\ parse_int_key(FinalKey(Keys)) > Len(FinalContainer(pre, Keys).s)
    /\ result.exc = "TypeError"

C17_WitnessRaise ==
    /\ call.op = "get_at" /\ RaisedCode("INVALID_INDEX") /\ root = pre

C17_WitnessExists ==
    /\ call.op = "exists_at" /\ Succeeded /\ result.ret = Leaf("True") /\ root = pre

(***************************************************************************)
(* C18: delete_at creates nothing.  It succeeds only when every non-final  *)
(* step is already there, and whenever it raises (missing key, invalid or  *)
(* out-of-range index, list deletion disabled, tuple, leaf) the root is    *)
(* exactly as it was before the call.                                      *)
(***************************************************************************)
\* the container without the slot the key denotes
WithoutSlot(node, key) ==
    IF node.kind = "dict"
    THEN Dict([x \in DOMAIN node.m \ {DictKey(key)} |-> node.m[x]])
    ELSE List([j \in 1..(Len(node.s) - 1) |->
                  IF j < Pos(node, key) THEN node.s[j] ELSE node.s[j + 1]])

C18_DeleteCreatesNothing ==
    call.op = "delete_at" =>
        /\ ~Succeeded => root = pre
        /\ (PathOk /\ ~HasFinalContainer(pre, Keys)) => ~Succeeded
        /\ Succeeded =>
              /\ PathOk /\ HasFinalContainer(pre, Keys)
              /\ FinalContainer(pre, Keys).kind \in {"dict", "list"}
              /\ root = ReplaceAt(pre, Parent(Keys),
                                  WithoutSlot(FinalContainer(pre, Keys), FinalKey(Keys)))

\* a non-final key is missing: MissingKey, and no container was made for it
C18_Witness ==
    /\ call.op = "delete_at" /\ PathOk /\ Len(Keys) = 2
    /\ pre.kind = "dict" /\ Keys[1] \notin DOMAIN pre.m
    /\ RaisedCode("MISSING_KEY")
    /\ Keys[1] \notin DOMAIN root.m

\* an allowed list deletion with an index out of range left the list alone
C18_WitnessIndex ==
    /\ call.op = "delete_at" /\ PathOk /\ call.allow
    /\ HasFinalContainer(pre, Keys) /\ FinalContainer(pre, Keys).kind = "list"
    /\ FinalContainer(pre, Keys).s # <<>>
    /\ RaisedCode("INVALID_INDEX") /\ root = pre

\* a deletion below a tuple went through
C18_WitnessSuccess ==
    /\ call.op = "delete_at" /\ Succeeded /\ Len(Keys) = 2 /\ root # pre

(***************************************************************************)
(* C19: create governs materialization and list growth, not assignment to  *)
(* a dict.  With create=False, set_at whose final container is a dict sets *)
(* the key even when the dict did not have it; set_at whose final token is *)
(* the length of the final list fails with InvalidIndex and leaves the     *)
(* list alone, and appends only with create=True.                          *)
(***************************************************************************)
FinalIsDict ==
    /\ HasFinalContainer(pre, Keys)
    /\ NoTupleUpTo(pre, Keys, Len(Keys))
    /\ FinalContainer(pre, Keys).kind = "dict"

FinalIsAppend ==
    /\ FinalIsList
    /\ is_int_key(FinalKey(Keys))
    /\ parse_int_key(FinalKey(Keys)) = Len(FinalContainer(pre, Keys).s)

C19_WitnessAppend ==
    /\ call.op = "set_at" /\ PathOk /\ ~call.create /\ FinalIsAppend
    /\ FinalContainer(pre, Keys).s # <<>>
    /\ RaisedCode("INVALID_INDEX") /\ root = pre

(***************************************************************************)
(* C20: set_at is not transactional.  With create=True a call that fails   *)
(* after it made a container leaves that container in the root; with       *)
(* create=False a failing call leaves the root as it was.                  *)
(***************************************************************************)
C20_NoRollback ==
    (call.op = "set_at" /\ ~Succeeded) =>
        IF ~call.create THEN root = pre
        ELSE PathOk =>
                \A i \in 1..Len(Keys) :
                    MissingStepAt(i) => root # pre /\ NewContainerAt(i)

\* set_at({}, "a.-1", v, create=True) failed and left {"a": []}
C20_Witness ==
    /\ call.op = "set_at" /\ call.create /\ PathOk
    /\ pre = Dict(EmptyMap)
    /\ Keys = <<A, StrTok(<<"-", "1">>)>>
    /\ RaisedCode("INVALID_INDEX")
    /\ root = Dict(Map1(A, List(<<>>)))

\* create=False failed at a list index and changed nothing
C20_WitnessNoCreate ==
    /\ call.op = "set_at" /\ ~call.create /\ PathOk
    /\ RaisedCode("INVALID_INDEX") /\ root = pre /\ pre.kind = "dict"

(***************************************************************************)
(* C21: during a set_at walk with create=True a non-final slot (a dict     *)
(* value or a list element) that holds None is replaced by an empty        *)
(* container chosen from the next token, and the walk goes on inside it;   *)
(* a slot that holds another leaf is not replaced: the call fails and the  *)
(* root is as it was.                                                      *)
(***************************************************************************)
\* the i-th key is not the last and leads, through dicts and lists of pre, to a leaf
LeafSlotAt(i) ==
    /\ i < Len(Keys)
    /\ Resolves(pre, Prefix(Keys, i))
    /\ NoTupleUpTo(pre, Keys, i)
    /\ ValueAt(pre, Prefix(Keys, i)).kind = "leaf"

C21_NoneReplacedLeafKept ==
    (call.op = "set_at" /\ call.create /\ PathOk) =>
        \A i \in 1..Len(Keys) :
            LeafSlotAt(i) =>
                IF ValueAt(pre, Prefix(Keys, i)) = None
                THEN /\ Resolves(root, Prefix(Keys, i))
                     /\ ValueAt(root, Prefix(Keys, i)).kind =
                           IF is_int_key(Keys[i + 1]) THEN "list" ELSE "dict"
                     /\ Succeeded => /\ Resolves(root, Keys)
                                     /\ ValueAt(root, Keys) = call.value
                     /\ ~Succeeded => /\ RaisedCode("INVALID_INDEX")
                                      /\ i = Len(Keys) - 1 =>
                                            ValueAt(root, Prefix(Keys, i)) = List(<<>>)
                ELSE ~Succeeded /\ root = pre

\* None in a list element was replaced by a dict that took the value
C21_Witness ==
    /\ call.op = "set_at" /\ call.create /\ PathOk /\ Succeeded
    /\ \E i \in 1..Len(Keys) :
          /\ LeafSlotAt(i)
          /\ ValueAt(pre, Prefix(Keys, i - 1)).kind = "list"
          /\ ValueAt(pre, Prefix(Keys, i)) = None
          /\ ValueAt(root, Prefix(Keys, i)).kind = "dict"

\* a string in a list element stopped the call
C21_WitnessLeaf ==
    /\ call.op = "set_at" /\ call.create /\ PathOk
    /\ \E i \in 1..Len(Keys) :
          /\ LeafSlotAt(i)
          /\ ValueAt(pre, Prefix(Keys, i - 1)).kind = "list"
          /\ ValueAt(pre, Prefix(Keys, i)) # None
    /\ ~Succeeded /\ root = pre

(***************************************************************************)
(* C22: set_at that comes to a leaf (a scalar, or a None that was not      *)
(* replaced) while tokens remain fails with NonNavigable, whether the leaf *)
(* is met at a non-final token or is the container of the final token, and *)
(* the leaf is not overwritten.                                            *)
(***************************************************************************)
\* the first i keys lead, through dicts and lists of pre, to a leaf the walk
\* does not replace, and tokens remain
LeafReachedAt(i) ==
    /\ i < Len(Keys)
    /\ Resolves(pre, Prefix(Keys, i))
    /\ NoTupleUpTo(pre, Keys, i)
    /\ ValueAt(pre, Prefix(Keys, i)).kind = "leaf"
    /\ i = 0 \/ ValueAt(pre, Prefix(Keys, i)) # None

C22_SetLeafNonNavigable ==
    (call.op = "set_at" /\ PathOk) =>
        \A i \in 0..Len(Keys) :
            LeafReachedAt(i) => RaisedCode("NON_NAVIGABLE_TYPE") /\ root = pre

\* what the code does: InvalidPath when the leaf is the container of the final
\* token, and no PathError at all when tokens remain beyond it
C22_SetLeafAsCoded ==
    (call.op = "set_at" /\ PathOk) =>
        \A i \in 0..Len(Keys) :
            LeafReachedAt(i) =>
                /\ root = pre
                /\ IF i = Len(Keys) - 1 THEN RaisedCode("INVALID_PATH")
                   ELSE result.exc = "AttributeError"

\* a leaf met with two tokens to go
C22_WitnessIntermediate ==
    /\ call.op = "set_at" /\ PathOk /\ Len(Keys) = 2 /\ LeafReachedAt(0)
    /\ result.exc = "AttributeError"

(***************************************************************************)
(* C23: the error codes of delete_at.  INVALID_PATH when the final         *)
(* container is a list and allow_list_mutation is not set, and when the    *)
(* final container is a leaf; MISSING_KEY for a dict key that is absent at *)
(* any step; INVALID_INDEX for a list index that is no number or out of    *)
(* range (at the final step: once allow_list_mutation is set).             *)
(***************************************************************************)
C23_DeleteErrorCodes ==
    (call.op = "delete_at" /\ PathOk) =>
        IF ~HasFinalContainer(pre, Keys)
        THEN /\ FailingCase(pre, Parent(Keys)) = "absent_key" => RaisedCode("MISSING_KEY")
             /\ FailingCase(pre, Parent(Keys)) \in {"non_index_token", "out_of_range"} =>
                   RaisedCode("INVALID_INDEX")
        ELSE /\ FinalContainer(pre, Keys).kind = "leaf" => RaisedCode("INVALID_PATH")
             /\ (FinalContainer(pre, Keys).kind = "list" /\ ~call.allow) =>
                   RaisedCode("INVALID_PATH")
             /\ (FinalContainer(pre, Keys).kind = "list" /\ call.allow
                   /\ StepCase(FinalContainer(pre, Keys), FinalKey(Keys))
                         \in {"non_index_token", "out_of_range"}) =>
                   RaisedCode("INVALID_INDEX")
             /\ (FinalContainer(pre, Keys).kind = "dict"
                   /\ StepCase(FinalContainer(pre, Keys), FinalKey(Keys)) = "absent_key") =>
                   RaisedCode("MISSING_KEY")

\* the container of the final token is None
C23_Witness ==
    /\ call.op = "delete_at" /\ PathOk /\ Len(Keys) = 2
    /\ HasFinalContainer(pre, Keys)
    /\ FinalContainer(pre, Keys) = None
    /\ RaisedCode("INVALID_PATH")

\* a key absent at a non-final step
C23_WitnessMissing ==
    /\ call.op = "delete_at" /\ PathOk /\ ~HasFinalContainer(pre, Keys)
    /\ FailingCase(pre, Parent(Keys)) = "absent_key"
    /\ RaisedCode("MISSING_KEY")

\* a token that is no number at the final step of an allowed list deletion
C23_WitnessIndex ==
    /\ call.op = "delete_at" /\ PathOk /\ call.allow /\ HasFinalContainer(pre, Keys)
    /\ FinalContainer(pre, Keys).kind = "list"
    /\ StepCase(FinalContainer(pre, Keys), FinalKey(Keys)) = "non_index_token"
    /\ RaisedCode("INVALID_INDEX")

(***************************************************************************)
(* C24: token classification.  A token is an index token iff it is an      *)
(* integer or a non-empty string made of an optional single leading "-"    *)
(* and one or more decimal digits; "-", "--5", "-5x", "+5", " 5", "1_0"    *)
(* and "" are no index tokens: on a list they give InvalidIndex, and the   *)
(* container made for them is a dict.                                      *)
(***************************************************************************)
PlainDigits(cs) == cs # <<>> /\ \A i \in 1..Len(cs) : cs[i] \in DigitChars

StrictIndexToken(t) ==
    \/ t.k = "int"
    \/ /\ t.k = "str"
       /\ t.s # <<>>
       /\ IF t.s[1] = "-" THEN PlainDigits(Tail(t.s)) ELSE PlainDigits(t.s)

FinalOnSequence ==
    /\ PathOk
    /\ HasFinalContainer(pre, Keys)
    /\ FinalContainer(pre, Keys).kind \in {"list", "tuple"}
    /\ NativeToken(FinalKey(Keys))

C24_TokenClassification ==
    /\ (call.op = "get_at" /\ ~call.hasDefault /\ FinalOnSequence) =>
          IF StrictIndexToken(FinalKey(Keys))
          THEN Succeeded <=> StepCase(FinalContainer(pre, Keys), FinalKey(Keys)) = "ok"
          ELSE RaisedCode("INVALID_INDEX")
    /\ (call.op = "set_at" /\ PathOk) =>
          \A i \in 1..Len(Keys) :
              (NewContainerAt(i) /\ NativeToken(Keys[i + 1])) =>
                  ValueAt(root, Prefix(Keys, i)).kind =
                     IF StrictIndexToken(Keys[i + 1]) THEN "list" ELSE "dict"

\* what the code does: every string int() parses is an index token
C24_ParseableIsIndex ==
    (call.op = "get_at" /\ ~call.hasDefault /\ FinalOnSequence
        /\ FinalKey(Keys) \in {StrTok(<<"+", "0">>), StrTok(<<" ", "0">>)}
        /\ FinalContainer(pre, Keys).s # <<>>) =>
        Succeeded /\ result.ret = FinalContainer(pre, Keys).s[1]

\* "+0" read the first element of a list
C24_WitnessPlus ==
    /\ call.op = "get_at" /\ ~call.hasDefault /\ FinalOnSequence
    /\ FinalKey(Keys) = StrTok(<<"+", "0">>)
    /\ Succeeded
    /\ result.ret = FinalContainer(pre, Keys).s[1]

\* a list was made for the next token "1_0"
C24_WitnessUnderscore ==
    /\ call.op = "set_at" /\ PathOk /\ Len(Keys) = 2
    /\ Keys[2] = StrTok(<<"1", "_", "0">>)
    /\ NewContainerAt(1)
    /\ ValueAt(root, Prefix(Keys, 1)) = List(<<>>)

(***************************************************************************)
(* C25: a boolean is never an index token.  is_int_key(True) and           *)
(* is_int_key(False) are False, normalize_path turns a boolean element of  *)
(* a list path into its string form, and so a boolean selects no element   *)
(* of a list.                                                              *)
(***************************************************************************)
C25_BooleanNeverIndex ==
    (call.op \in AccessCalls /\ call.path.form = "list" /\ PathOk) =>
        /\ \A i \in 1..Len(Keys) :
              call.path.elems[i].k = "bool" =>
                  /\ ~is_int_key(call.path.elems[i])
                  /\ Keys[i].k = "str"
        /\ (call.op = "get_at" /\ ~call.hasDefault /\ HasFinalContainer(pre, Keys)
              /\ FinalContainer(pre, Keys).kind \in {"list", "tuple"}
              /\ call.path.elems[Len(Keys)].k = "bool") =>
              RaisedCode("INVALID_INDEX")

\* what the code does: True is the index 1 and False the index 0
C25_BooleanIsIndex ==
    (call.op = "get_at" /\ ~call.hasDefault /\ call.path.form = "list" /\ PathOk
        /\ HasFinalContainer(pre, Keys)
        /\ FinalContainer(pre, Keys).kind \in {"list", "tuple"}
        /\ call.path.elems[Len(Keys)].k = "bool") =>
        /\ Keys[Len(Keys)] = call.path.elems[Len(Keys)]
        /\ IF call.path.elems[Len(Keys)].n < Len(FinalContainer(pre, Keys).s)
           THEN /\ Succeeded
                /\ result.ret = FinalContainer(pre, Keys).s[call.path.elems[Len(Keys)].n + 1]
           ELSE RaisedCode("INVALID_INDEX")

\* the path [True] read the second element of a list
C25_WitnessTrue ==
    /\ call.op = "get_at" /\ call.path = ListPath(<<BoolTok(TRUE)>>)
    /\ pre.kind = "list" /\ Len(pre.s) = 2
    /\ Succeeded /\ result.ret = pre.s[2]

(***************************************************************************)
(* C26: set, then delete.  After set_at(root, p, v) has succeeded with a   *)
(* dict as final container, delete_at(root, p) returns v; after it         *)
(* exists_at(root, p) is False, the other keys of that dict are still      *)
(* there, and so are the containers on the way, those set_at made          *)
(* included: delete_at prunes nothing.                                     *)
(***************************************************************************)
SetOnDictDone ==
    /\ call.op = "set_at" /\ PathOk /\ Succeeded
    /\ FinalContainer(root, Keys).kind = "dict"

\* d is the outcome of delete_at on the root that set_at left
DeleteUndoesSet(d) ==
    /\ d.out = NoExc
    /\ d.ret = call.value
    /\ \A i \in 0..(Len(Keys) - 1) :
          /\ Resolves(d.cur, Prefix(Keys, i))
          /\ ValueAt(d.cur, Prefix(Keys, i)).kind = ValueAt(root, Prefix(Keys, i)).kind
    /\ DOMAIN FinalContainer(d.cur, Keys).m =
          DOMAIN FinalContainer(root, Keys).m \ {DictKey(FinalKey(Keys))}
    /\ \A x \in DOMAIN FinalContainer(d.cur, Keys).m :
          FinalContainer(d.cur, Keys).m[x] = FinalContainer(root, Keys).m[x]

C26_SetThenDelete ==
    SetOnDictDone =>
        /\ DeleteUndoesSet(delete_at(root, call.path, FALSE))
        /\ exists_at(delete_at(root, call.path, FALSE).cur, call.path).out = NoExc
        /\ exists_at(delete_at(root, call.path, FALSE).cur, call.path).ret = Leaf("False")

\* what the code does: delete_at is as claimed, and exists_at raises
C26_SetThenDeleteAsCoded ==
    SetOnDictDone =>
        /\ DeleteUndoesSet(delete_at(root, call.path, FALSE))
        /\ exists_at(delete_at(root, call.path, FALSE).cur, call.path).out.exc = "AttributeError"

\* set_at made a dict for the value, and delete_at leaves that dict empty in the root
C26_WitnessCreated ==
    /\ SetOnDictDone /\ Len(Keys) = 2 /\ NewContainerAt(1)
    /\ Resolves(delete_at(root, call.path, FALSE).cur, Prefix(Keys, 1))
    /\ ValueAt(delete_at(root, call.path, FALSE).cur, Prefix(Keys, 1)) = Dict(EmptyMap)

(***************************************************************************)
(* C27: set_at is idempotent.  When set_at(root, p, v, create=c) has       *)
(* succeeded, the same call made again succeeds too and leaves the root as *)
(* the first call left it: an append at index n becomes a replacement of   *)
(* slot n, and no second element is added.                                 *)
(***************************************************************************)
C27_SetIdempotent ==
    (call.op = "set_at" /\ Succeeded) =>
        /\ set_at(root, call.path, call.value, call.create).out = NoExc
        /\ set_at(root, call.path, call.value, call.create).cur = root

\* the first call appended to a list that had elements
C27_Witness ==
    /\ call.op = "set_at" /\ Succeeded /\ PathOk /\ FinalIsAppend
    /\ FinalContainer(pre, Keys).s # <<>>
    /\ Len(FinalContainer(root, Keys).s) = Len(FinalContainer(pre, Keys).s) + 1
    /\ set_at(root, call.path, call.value, call.create).cur = root

\* the first call made the containers on the way
C27_WitnessCreated ==
    /\ call.op = "set_at" /\ Succeeded /\ PathOk /\ Len(Keys) = 2 /\ NewContainerAt(1)
    /\ set_at(root, call.path, call.value, call.create).cur = root

(***************************************************************************)
(* C28: tuple asymmetry.  delete_at walks through a tuple at a non-final   *)
(* step as a read does (negative indexes included; a token that is no      *)
(* index or is out of range gives InvalidIndex) and removes a key of a     *)
(* dict inside the tuple; set_at stops at the first tuple it would have to *)
(* walk through with ImmutableContainer and leaves the root alone, even    *)
(* when the final container is a dict inside the tuple.                    *)
(***************************************************************************)
\* the i-th key is not the last and applies to a tuple in pre
TupleStepAt(i) ==
    /\ i < Len(Keys)
    /\ Resolves(pre, Prefix(Keys, i - 1))
    /\ ValueAt(pre, Prefix(Keys, i - 1)).kind = "tuple"

C28_TupleAsymmetry ==
    \A i \in 1..MaxPathLen :
        (PathOk /\ TupleStepAt(i)) =>
            /\ call.op = "delete_at" =>
                  /\ ~RaisedCode("IMMUTABLE_CONTAINER")
                  /\ (~Resolves(pre, Prefix(Keys, i))
                        /\ StepCase(ValueAt(pre, Prefix(Keys, i - 1)), Keys[i])
                              \in {"non_index_token", "out_of_range"}) =>
                        RaisedCode("INVALID_INDEX")
                  /\ (HasFinalContainer(pre, Keys)
                        /\ FinalContainer(pre, Keys).kind = "dict"
                        /\ StepCase(FinalContainer(pre, Keys), FinalKey(Keys)) = "ok") =>
                        /\ Succeeded
                        /\ root = ReplaceAt(pre, Parent(Keys),
                                     WithoutSlot(FinalContainer(pre, Keys), FinalKey(Keys)))
            /\ (call.op = "set_at" /\ NoTupleUpTo(pre, Keys, i - 1)) =>
                  /\ RaisedCode("IMMUTABLE_CONTAINER")
                  /\ root = pre

\* delete_at removed a key of a dict that sits inside a tuple
C28_Witness ==
    /\ call.op = "delete_at" /\ PathOk /\ Len(Keys) = 2 /\ TupleStepAt(1)
    /\ FinalContainer(pre, Keys).kind = "dict"
    /\ Succeeded
    /\ DictKey(FinalKey(Keys)) \notin DOMAIN FinalContainer(root, Keys).m
    /\ pre.kind = "tuple" /\ root.kind = "tuple"

\* set_at refused the same walk although its target is a key of that dict
C28_WitnessSet ==
    /\ call.op = "set_at" /\ PathOk /\ Len(Keys) = 2 /\ TupleStepAt(1)
    /\ HasFinalContainer(pre, Keys)
    /\ FinalContainer(pre, Keys).kind = "dict"
    /\ call.create
    /\ RaisedCode("IMMUTABLE_CONTAINER") /\ root = pre

\* delete_at resolved a negative index on the tuple
C28_WitnessNegative ==
    /\ call.op = "delete_at" /\ PathOk /\ Len(Keys) = 2 /\ TupleStepAt(1)
    /\ parse_int_key(Keys[1]) < 0
    /\ Resolves(pre, Prefix(Keys, 1))

(***************************************************************************)
(* C29: atomic only under exclusive access.  A set_at on the shared list   *)
(* that returns without exception and ran with no step of another call     *)
(* between its index resolution and its write has its value at its path    *)
(* when it returns.  A call that another call interleaved with can return  *)
(* without exception with its value one slot after its path, or with       *)
(* another call's value at its path; nothing in the code excludes the      *)
(* interleaving.                                                           *)
(***************************************************************************)
\* thread t has returned from set_at without exception
ThreadDone(t) == th[t].pc = "done" /\ th[t].out = NoExc

\* the list as thread t's call left it holds t's value at t's path
ThreadValueAtPath(t) ==
    /\ StepCase(th[t].seen, th[t].key) = "ok"
    /\ StepChild(th[t].seen, th[t].key) = th[t].value

C29_ExclusiveSetLands ==
    \A t \in Threads :
        (ThreadDone(t) /\ ~th[t].interleaved) => ThreadValueAtPath(t)

\* both calls appended at the same index: the second value landed one slot
\* later, while the call that ran alone has its value at its path
C29_Witness ==
    \E t, u \in Threads :
        /\ t # u
        /\ ThreadDone(t) /\ ~th[t].interleaved /\ ThreadValueAtPath(t)
        /\ ThreadDone(u) /\ th[u].interleaved /\ ~ThreadValueAtPath(u)
        /\ th[t].value # th[u].value
        /\ Len(th[u].seen.s) >= th[u].idx + 2
        /\ th[u].seen.s[th[u].idx + 2] = th[u].value

\* a negative index resolved before the other call appended: the value is
\* stored, but no longer at the path "-1"
C29_WitnessNegative ==
    \E u \in Threads :
        /\ ThreadDone(u) /\ th[u].interleaved /\ ~ThreadValueAtPath(u)
        /\ th[u].key = IntTok(-1)

\* lost update: both calls returned without exception and the list holds
\* the value of one of them only
C29_WitnessLost ==
    \E t, u \in Threads :
        /\ t # u /\ ThreadDone(t) /\ ThreadDone(u)
        /\ th[t].value # th[u].value
        /\ th[u].interleaved
        /\ \A i \in 1..Len(root.s) : root.s[i] # th[t].value

\* no interleaving is excluded: a thread is between resolution and write
\* while the other one writes
C29_WitnessNoLock ==
    \E t, u \in Threads :
        /\ t # u /\ th[t].pc \in {"append", "assign"} /\ th[u].pc \in {"append", "assign"}

(***************************************************************************)
(* C30: introspection consistency.  count_leaves(data) is the number of    *)
(* paths get_all_paths(data) returns: empty containers give no leaf and no *)
(* path, a leaf root gives one leaf and the single empty path.  Every      *)
(* returned path that is not empty, has at most MAX_DEPTH tokens and whose *)
(* mapping keys are non-empty strings resolves through get_at to a value   *)
(* that is no dict, list or tuple; a returned path of more than MAX_DEPTH  *)
(* tokens makes get_at raise InvalidPath.                                  *)
(***************************************************************************)
\* the node a returned path leads to in data: the first half of the keys is
\* followed, then the second half from the node reached
RECURSIVE NodeAfter(_, _)
RECURSIVE NodeFrom(_, _)
NodeAfter(data, keys) ==
    IF keys = <<>> THEN data
    ELSE IF Len(keys) = 1
    THEN (IF data.kind = "dict" THEN data.m[keys[1]] ELSE data.s[keys[1].n + 1])
    ELSE NodeFrom(NodeAfter(data, SubSeq(keys, 1, Len(keys) \div 2)),
                  SubSeq(keys, Len(keys) \div 2 + 1, Len(keys)))
NodeFrom(mid, rest) == IF mid.kind = "" THEN mid ELSE NodeAfter(mid, rest)

\* every token of the path that is looked up in a dict is a non-empty string
StringMappingKeys(data, keys) ==
    \A i \in 1..Len(keys) :
        NodeAfter(data, SubSeq(keys, 1, i - 1)).kind = "dict" =>
            keys[i].k = "str" /\ keys[i].s # <<>>

\* count_leaves(root), get_all_paths(root) have returned
Counted == insp.cpc = "done"
Listed == insp.ppc = "done"

CountMatchesPaths ==
    /\ (Counted /\ Listed) => insp.count = Len(insp.paths)
    /\ (Counted /\ root.kind = "leaf") => insp.count = 1
    /\ (Listed /\ root.kind = "leaf") => insp.paths = << <<>> >>
    /\ (Counted /\ root \in {Dict(EmptyMap), List(<<>>), Tuple(<<>>)}) => insp.count = 0
    /\ (Listed /\ root \in {Dict(EmptyMap), List(<<>>), Tuple(<<>>)}) => insp.paths = <<>>

\* the path is one the claim speaks of
StringKeyedPath(p) == p # <<>> /\ StringMappingKeys(root, p)

ResolvesToLeaf(p) ==
    /\ get_at(root, ListPath(p), FALSE, None).out = NoExc
    /\ get_at(root, ListPath(p), FALSE, None).ret.kind = "leaf"

\* the claim as stated: every such path resolves, whatever its length
C30_EveryPathResolves ==
    /\ CountMatchesPaths
    /\ Listed =>
          \A i \in 1..Len(insp.paths) :
              StringKeyedPath(insp.paths[i]) => ResolvesToLeaf(insp.paths[i])

C30_IntrospectionConsistent ==
    /\ CountMatchesPaths
    /\ Listed =>
          \A i \in 1..Len(insp.paths) :
              StringKeyedPath(insp.paths[i]) =>
                  IF Len(insp.paths[i]) <= MAX_DEPTH
                  THEN ResolvesToLeaf(insp.paths[i])
                  ELSE get_at(root, ListPath(insp.paths[i]), FALSE, None).out
                           = Raise("INVALID_PATH")

\* two leaves under a dict, a list and a tuple, beside an empty container
C30_Witness ==
    /\ Counted /\ Listed
    /\ insp.count = 2 /\ Len(insp.paths) = 2
    /\ \E i \in 1..2 : Len(insp.paths[i]) = 4 /\ ResolvesToLeaf(insp.paths[i])

\* the path to the leaf of a list nested MAX_DEPTH + 1 deep
C30_WitnessDeep ==
    /\ Counted /\ Listed /\ insp.count = 1
    /\ Len(insp.paths[1]) = MAX_DEPTH + 1
    /\ StringKeyedPath(insp.paths[1])

\* a path of MAX_DEPTH tokens resolves
C30_WitnessAtLimit ==
    /\ Listed /\ Len(insp.paths) = 1
    /\ Len(insp.paths[1]) = MAX_DEPTH
    /\ ResolvesToLeaf(insp.paths[1])

\* a key that is no string: the returned path does not resolve
C30_WitnessFloatKey ==
    /\ Listed /\ Len(insp.paths) = 1
    /\ ~StringKeyedPath(insp.paths[1])
    /\ insp.paths[1] # <<>>
    /\ ~ResolvesToLeaf(insp.paths[1])

====
